---------------------------- MODULE Spec2Model ----------------------------
(***************************************************************************)
(* A model of libindy-crypto's CL anonymous-credential module (cl/mod.rs)  *)
(* and of the C interface of its schema builder (ffi/cl/mod.rs):           *)
(* the schema, sub-proof-request and predicate types, the legacy-field     *)
(* deserializers, and the issuance / proof pipeline the module's tests     *)
(* drive.                                                                  *)
(*                                                                         *)
(* The module holds several state machines over disjoint variables; each   *)
(* specification moves one of them and leaves the others at rest:          *)
(*   Spec          the CredentialSchemaBuilder                             *)
(*   SpecRequest   the SubProofRequestBuilder                              *)
(*   SpecPredicate Predicate::get_delta / get_delta_prime / is_less        *)
(*   SpecSerde     the Deserialize impls with the legacy rms / m1 fields   *)
(*   SpecProtocol  kgen -> blind -> sign -> process -> prove -> verify     *)
(*   SpecKeygen    both schema builders, then Issuer::new_credential_def   *)
(*   SpecHanded    the same pipeline, each party given honest or altered   *)
(*                 values (proofs, nonces, signatures) by its counterpart  *)
(*   SpecNonce     new_nonce                                               *)
(*   SpecFfi       the C interface of the schema builder (ffi/cl/mod.rs)   *)
(*   SpecMocks     the calls the helpers of ffi/cl/mod.rs make on non      *)
(*                 credential schema builders                              *)
(*   SpecArgs      the C interface called with null and invalid arguments  *)
(*   SpecValues    the C interface of the credential values builder        *)
(***************************************************************************)
EXTENDS Integers, Sequences, FiniteSets, TLC

VARIABLES
    \* --- CredentialSchemaBuilder / CredentialSchema (cl/mod.rs 33-57)
    schema_builder,      \* the live builder: [attrs |-> BTreeSet] or None
    schema_calls,        \* history: the attr of every add_attr call on it
    credential_schema,   \* the finalized schema: [attrs |-> BTreeSet] or None
    \* --- SubProofRequestBuilder / SubProofRequest (cl/mod.rs 419-470)
    request_builder,     \* the live builder: [value |-> SubProofRequest] or None
    request_calls,       \* history: every add_predicate call and its result
    sub_proof_request,   \* the finalized SubProofRequest or None
    \* --- the build: whether integer overflow is checked (debug profile,
    \*     a panic) or wraps (release profile)
    overflow_checks,
    \* --- one Predicate and the results of its methods (cl/mod.rs 480-505)
    predicate_in,        \* self
    attr_value_in,       \* get_delta's attr_value: i32
    delta_out,           \* what get_delta did, or None before the call
    delta_prime_out,     \* what get_delta_prime did, or None before the call
    is_less_out,         \* what is_less did, or None before the call
    \* --- serde_json::from_str::<T> on two JSON texts (cl/mod.rs 303-326,
    \*     552-577)
    serde_type,          \* T
    serde_json_in,       \* the two JSON objects
    serde_out,           \* for each, the Result of from_str or None before
    \* --- one run of issuance and presentation (cl/mod.rs 899-973)
    step,                \* the next call of the run, "done" or "failed"
    failure,             \* what the failing call did, or None
    rng,                 \* the state of the random number generator
    non_credential_schema,
    cred_values,         \* CredentialValues: attr -> [value, kind]
    nonces,              \* credential, issuance and proof request nonce
    cred_def,            \* (cred_pub_key, cred_priv_key,
                         \*  cred_key_correctness_proof) or None
    blinded,             \* (blinded_credential_secrets, blinding factors,
                         \*  correctness proof) or None
    signed,              \* (cred_signature, signature_correctness_proof)
    init_proofs,         \* ProofBuilder: the init proofs, c_list, tau_list
    proof,               \* the Proof of ProofBuilder::finalize or None
    verify_out,          \* the Result of ProofVerifier::verify or None
    \* --- NonCredentialSchemaBuilder (cl/mod.rs 59-84); its finalize
    \*     gives non_credential_schema
    non_schema_builder,  \* the live builder: [attrs |-> BTreeSet] or None
    \* --- what a party of the run was handed in place of the honest
    \*     value, or None where the honest value was passed
    kcp_in,              \* the key correctness proof given to the prover
    sign_nonce_in,       \* the credential nonce given to sign_credential, in a sequence
    signature_in,        \* the signature given to process_credential_signature
    shown_proof,         \* the proof given to the verifier
    verify_nonce_in,     \* the nonce given to the verifier, in a sequence
    \* --- new_nonce (cl/mod.rs 28-30)
    nonce_rng,           \* the state of the random number generator
    nonce_out,           \* the Results of the new_nonce calls
    \* --- the C interface of the schema builder (ffi/cl/mod.rs 16-125)
    ffi_heap,            \* for every address, the boxed value there or None
    ffi_last,            \* the last call: function, handle, result, output
    ffi_count,           \* the number of calls so far
    ffi_undefined        \* a call has had undefined behaviour

schema_vars == <<schema_builder, schema_calls, credential_schema>>
request_vars == <<request_builder, request_calls, sub_proof_request>>

predicate_vars == <<predicate_in, attr_value_in, delta_out, delta_prime_out,
                    is_less_out>>

serde_vars == <<serde_type, serde_json_in, serde_out>>

protocol_vars == <<step, failure, rng, non_credential_schema, cred_values,
                   nonces, cred_def, blinded, signed, init_proofs, proof,
                   verify_out>>

handed_vars == <<kcp_in, sign_nonce_in, signature_in, shown_proof,
                 verify_nonce_in>>

nonce_vars == <<nonce_rng, nonce_out>>

ffi_vars == <<ffi_heap, ffi_last, ffi_count, ffi_undefined>>

extra_vars == <<non_schema_builder, handed_vars, nonce_vars, ffi_vars>>

vars == <<schema_vars, request_vars, overflow_checks, predicate_vars,
          serde_vars, protocol_vars, extra_vars>>

\* Option::None (every optional value of the model is a record)
None == [none |-> TRUE]

\* Result<T, IndyCryptoError>
Ok(v) == [ok |-> TRUE, value |-> v]
Err(kind) == [ok |-> FALSE, err |-> kind]

(***************************************************************************)
(* Strings.  Rust orders String by its UTF-8 bytes; the names used by the  *)
(* model are listed with their bytes so that the order is computed, not    *)
(* assumed.                                                                *)
(***************************************************************************)
Utf8(str) ==
    CASE str = "age"           -> <<97, 103, 101>>
      [] str = "ag"            -> <<97, 103>>
      [] str = "name"          -> <<110, 97, 109, 101>>
      [] str = "Sex"           -> <<83, 101, 120>>
      [] str = "master_secret" -> <<109, 97, 115, 116, 101, 114, 95,
                                    115, 101, 99, 114, 101, 116>>
      [] str = "ssn"           -> <<115, 115, 110>>

\* <[u8] as Ord>::cmp: the first differing byte decides, else the shorter
\* slice is the smaller.
RECURSIVE BytesLess(_, _)
BytesLess(a, b) ==
    IF b = <<>> THEN FALSE
    ELSE IF a = <<>> THEN TRUE
    ELSE IF Head(a) # Head(b) THEN Head(a) < Head(b)
    ELSE BytesLess(Tail(a), Tail(b))

StrLess(a, b) == BytesLess(Utf8(a), Utf8(b))

(***************************************************************************)
(* std::collections::BTreeSet<T>: a strictly ascending sequence.  insert   *)
(* leaves the set alone when the element is present and otherwise puts it  *)
(* at its place in the order.                                              *)
(***************************************************************************)
BTreeSetNew == <<>>

BTreeSetContains(set, x) == \E i \in DOMAIN set : set[i] = x

\* The sequence with x put in as its (k+1)-th element.
InsertAt(set, x, k) ==
    SubSeq(set, 1, k) \o <<x>> \o SubSeq(set, k + 1, Len(set))

\* BTreeSet<String>::insert, as a Vec::push would do it (no order kept)
BTreeSetInsertUnordered(set, x) ==
    IF BTreeSetContains(set, x) THEN set ELSE Append(set, x)

\* BTreeSet<String>::insert
BTreeSetInsert(set, x) ==
    IF BTreeSetContains(set, x) THEN set
    ELSE InsertAt(set, x, Cardinality({i \in DOMAIN set : StrLess(set[i], x)}))

Elems(seq) == {seq[i] : i \in DOMAIN seq}

(***************************************************************************)
(* CredentialSchemaBuilder                                                 *)
(***************************************************************************)
AttrNames == {"age", "ag", "name", "Sex"}

MaxSchemaCalls == 4

\* CredentialSchemaBuilder::new (a behaviour follows one builder)
CredentialSchemaBuilder_new ==
    /\ schema_builder = None /\ credential_schema = None
    /\ schema_builder' = [attrs |-> BTreeSetNew]
    /\ schema_calls' = <<>>
    /\ UNCHANGED <<credential_schema, request_vars, overflow_checks, extra_vars, predicate_vars, serde_vars,
                   protocol_vars>>

\* CredentialSchemaBuilder::add_attr
CredentialSchemaBuilder_add_attr(attr) ==
    /\ schema_builder # None
    /\ Len(schema_calls) < MaxSchemaCalls
    /\ schema_builder' =
           [attrs |-> BTreeSetInsert(schema_builder.attrs, attr)]
    /\ schema_calls' = Append(schema_calls, attr)
    /\ UNCHANGED <<credential_schema, request_vars, overflow_checks, extra_vars, predicate_vars, serde_vars,
                   protocol_vars>>

\* CredentialSchemaBuilder::finalize: consumes the builder
CredentialSchemaBuilder_finalize ==
    /\ schema_builder # None
    /\ credential_schema' = [attrs |-> schema_builder.attrs]
    /\ schema_builder' = None
    /\ UNCHANGED <<schema_calls, request_vars, overflow_checks, extra_vars, predicate_vars, serde_vars,
                   protocol_vars>>

SchemaInit ==
    /\ schema_builder = None
    /\ schema_calls = <<>>
    /\ credential_schema = None

SchemaNext ==
    \/ CredentialSchemaBuilder_new
    \/ \E attr \in AttrNames : CredentialSchemaBuilder_add_attr(attr)
    \/ CredentialSchemaBuilder_finalize

(***************************************************************************)
(* NonCredentialSchemaBuilder                                              *)
(***************************************************************************)
NonAttrNames == {"master_secret", "age"}

\* NonCredentialSchemaBuilder::new (a behaviour follows one builder)
NonCredentialSchemaBuilder_new ==
    /\ non_schema_builder = None /\ non_credential_schema = None
    /\ non_schema_builder' = [attrs |-> BTreeSetNew]
    /\ UNCHANGED <<schema_vars, request_vars, overflow_checks,
                   predicate_vars, serde_vars, protocol_vars, handed_vars,
                   nonce_vars, ffi_vars>>

\* NonCredentialSchemaBuilder::add_attr
NonCredentialSchemaBuilder_add_attr(attr) ==
    /\ non_schema_builder # None
    /\ non_schema_builder' =
           [attrs |-> BTreeSetInsert(non_schema_builder.attrs, attr)]
    /\ UNCHANGED <<schema_vars, request_vars, overflow_checks,
                   predicate_vars, serde_vars, protocol_vars, handed_vars,
                   nonce_vars, ffi_vars>>

\* NonCredentialSchemaBuilder::finalize: consumes the builder
NonCredentialSchemaBuilder_finalize ==
    /\ non_schema_builder # None
    /\ non_credential_schema' = [attrs |-> non_schema_builder.attrs]
    /\ non_schema_builder' = None
    /\ UNCHANGED <<step, failure, rng, cred_values, nonces, cred_def,
                   blinded, signed, init_proofs, proof, verify_out,
                   schema_vars, request_vars, overflow_checks,
                   predicate_vars, serde_vars, handed_vars, nonce_vars,
                   ffi_vars>>

NonSchemaNext ==
    \/ NonCredentialSchemaBuilder_new
    \/ \E attr \in NonAttrNames : NonCredentialSchemaBuilder_add_attr(attr)
    \/ NonCredentialSchemaBuilder_finalize

(***************************************************************************)
(* Predicate, PredicateType (cl/mod.rs 472-514)                            *)
(***************************************************************************)
PredicateType == {"GE", "LE", "GT", "LT"}

\* #[derive(Ord)] on the enum: the variants in the order of declaration
PredicateTypeRank(p_type) ==
    CASE p_type = "GE" -> 0
      [] p_type = "LE" -> 1
      [] p_type = "GT" -> 2
      [] p_type = "LT" -> 3

\* #[derive(Ord)] on the struct: attr_name, then p_type, then value
PredicateLess(a, b) ==
    IF a.attr_name # b.attr_name THEN StrLess(a.attr_name, b.attr_name)
    ELSE IF a.p_type # b.p_type
         THEN PredicateTypeRank(a.p_type) < PredicateTypeRank(b.p_type)
    ELSE a.value < b.value

\* an insert into a set that holds one predicate for an attribute
BTreeSetInsertPredicateByAttrName(set, x) ==
    IF \E i \in DOMAIN set : set[i].attr_name = x.attr_name THEN set
    ELSE InsertAt(set, x,
                  Cardinality({i \in DOMAIN set : PredicateLess(set[i], x)}))

\* BTreeSet<Predicate>::insert
BTreeSetInsertPredicate(set, x) ==
    IF BTreeSetContains(set, x) THEN set
    ELSE InsertAt(set, x,
                  Cardinality({i \in DOMAIN set : PredicateLess(set[i], x)}))

(***************************************************************************)
(* i32 arithmetic.  An operation whose result leaves the 32-bit range      *)
(* panics when the build checks overflow and wraps (two's complement)      *)
(* when it does not.  No intermediate value of these definitions leaves    *)
(* the 32-bit range itself.                                                *)
(***************************************************************************)
I32Max == 2147483647
I32Min == -I32Max - 1

\* what a call did: it returned a value, or the thread panicked
Returned(v) == [panic |-> FALSE, value |-> v]
Panicked == [panic |-> TRUE]

SubOverflows(a, b) ==
    \/ b > 0 /\ a < I32Min + b
    \/ b < 0 /\ a > I32Max + b

\* a - b reduced to the 32-bit range (i32::wrapping_sub)
WrappingSub(a, b) ==
    IF ~SubOverflows(a, b) THEN a - b
    ELSE IF b > 0 THEN (a - I32Min) - (b + I32Min)    \* a - b + 2^32
    ELSE (a + I32Min) - (b - I32Min)                  \* a - b - 2^32

\* the operator - on i32
I32Sub(a, b) ==
    IF SubOverflows(a, b) /\ overflow_checks THEN Panicked
    ELSE Returned(WrappingSub(a, b))

\* the operator + on i32 (a + b is a - (-b); b is never i32::MIN here)
I32Add(a, b) == I32Sub(a, -b)

(***************************************************************************)
(* Decimal strings: i32::to_string and BigNumber::from_dec.  A string is   *)
(* a sequence of one-character strings.                                    *)
(***************************************************************************)
Digits == <<"0", "1", "2", "3", "4", "5", "6", "7", "8", "9">>

DigitChar(d) == Digits[d + 1]

IsDigit(ch) == \E i \in DOMAIN Digits : Digits[i] = ch

DigitValue(ch) == (CHOOSE i \in DOMAIN Digits : Digits[i] = ch) - 1

RECURSIVE NonNegToString(_)
NonNegToString(n) ==
    IF n < 10 THEN <<DigitChar(n)>>
    ELSE NonNegToString(n \div 10) \o <<DigitChar(n % 10)>>

\* the digits of -i for i < 0
RECURSIVE NegToString(_)
NegToString(i) ==
    LET d == (10 - (i % 10)) % 10
        rest == (i + d) \div 10
    IN  IF rest = 0 THEN <<DigitChar(d)>>
        ELSE NegToString(rest) \o <<DigitChar(d)>>

\* <i32 as ToString>::to_string
I32ToString(i) ==
    IF i >= 0 THEN NonNegToString(i) ELSE <<"-">> \o NegToString(i)

\* minus the number the digits spell
RECURSIVE NegatedValue(_, _)
NegatedValue(digits, acc) ==
    IF digits = <<>> THEN acc
    ELSE NegatedValue(Tail(digits), acc * 10 - DigitValue(Head(digits)))

\* BigNumber::from_dec: an optional sign and at least one digit
BigNumber_from_dec(dec) ==
    LET negative == dec # <<>> /\ Head(dec) = "-"
        digits == IF negative THEN Tail(dec) ELSE dec
    IN  IF digits = <<>> \/ \E i \in DOMAIN digits : ~IsDigit(digits[i])
        THEN Err("InvalidStructure")
        ELSE IF negative THEN Ok(NegatedValue(digits, 0))
        ELSE Ok(-NegatedValue(digits, 0))

(***************************************************************************)
(* impl Predicate                                                          *)
(***************************************************************************)
\* the second operation of a chain: a panic in the first ends the call
ThenSub(first, b) == IF first.panic THEN first ELSE I32Sub(first.value, b)

\* Predicate::get_delta
get_delta(self, attr_value) ==
    CASE self.p_type = "GE" -> I32Sub(attr_value, self.value)
      [] self.p_type = "GT" -> ThenSub(I32Sub(attr_value, self.value), 1)
      [] self.p_type = "LE" -> I32Sub(self.value, attr_value)
      [] self.p_type = "LT" -> ThenSub(I32Sub(self.value, attr_value), 1)

\* BigNumber::from_dec(&x.to_string()) of an i32 the arithmetic produced
DecOf(x) ==
    IF x.panic THEN x ELSE Returned(BigNumber_from_dec(I32ToString(x.value)))

\* get_delta_prime with the two strict predicates exchanged
get_delta_prime_swapped(self) ==
    CASE self.p_type = "GE" -> DecOf(Returned(self.value))
      [] self.p_type = "GT" -> DecOf(I32Sub(self.value, 1))
      [] self.p_type = "LE" -> DecOf(Returned(self.value))
      [] self.p_type = "LT" -> DecOf(I32Add(self.value, 1))

\* Predicate::get_delta_prime
get_delta_prime(self) ==
    CASE self.p_type = "GE" -> DecOf(Returned(self.value))
      [] self.p_type = "GT" -> DecOf(I32Add(self.value, 1))
      [] self.p_type = "LE" -> DecOf(Returned(self.value))
      [] self.p_type = "LT" -> DecOf(I32Sub(self.value, 1))

\* is_less telling the strict predicates from the others
is_less_of_strict(self) ==
    CASE self.p_type \in {"GE", "LE"} -> FALSE
      [] self.p_type \in {"GT", "LT"} -> TRUE

\* Predicate::is_less
is_less(self) ==
    CASE self.p_type \in {"GE", "GT"} -> FALSE
      [] self.p_type \in {"LE", "LT"} -> TRUE

\* the i32 values the methods are tried on: the ends of the range, their
\* neighbours, and the values of the tests
I32Samples == {I32Min, I32Min + 1, -1, 0, 1, 18, 28, 29, I32Max - 1, I32Max}

Call_get_delta ==
    /\ delta_out = None
    /\ delta_out' = get_delta(predicate_in, attr_value_in)
    /\ UNCHANGED <<predicate_in, attr_value_in, delta_prime_out, is_less_out,
                   overflow_checks, extra_vars, schema_vars, request_vars, serde_vars,
                   protocol_vars>>

Call_get_delta_prime ==
    /\ delta_prime_out = None
    /\ delta_prime_out' = get_delta_prime(predicate_in)
    /\ UNCHANGED <<predicate_in, attr_value_in, delta_out, is_less_out,
                   overflow_checks, extra_vars, schema_vars, request_vars, serde_vars,
                   protocol_vars>>

Call_is_less ==
    /\ is_less_out = None
    /\ is_less_out' = Returned(is_less(predicate_in))
    /\ UNCHANGED <<predicate_in, attr_value_in, delta_out, delta_prime_out,
                   overflow_checks, extra_vars, schema_vars, request_vars, serde_vars,
                   protocol_vars>>

\* no Predicate under test
PredicateAtRest ==
    /\ predicate_in = None
    /\ attr_value_in = 0
    /\ delta_out = None
    /\ delta_prime_out = None
    /\ is_less_out = None

PredicateInit ==
    /\ predicate_in \in [attr_name : {"age"}, p_type : PredicateType,
                          value : I32Samples]
    /\ attr_value_in \in I32Samples
    /\ delta_out = None
    /\ delta_prime_out = None
    /\ is_less_out = None

PredicateNext ==
    \/ Call_get_delta
    \/ Call_get_delta_prime
    \/ Call_is_less

(***************************************************************************)
(* SubProofRequestBuilder                                                  *)
(***************************************************************************)
\* the p_type strings given to add_predicate
PTypeTokens == {"GE", "LE", "GT", "LT", "ge", "lt", "", "EQ", "GE "}

RequestAttrNames == {"age", "name"}

RequestValues == {0, 18}

MaxRequestCalls == 2

\* the match of add_predicate, were it to fold the case of p_type
ParsePredicateTypeIgnoringCase(p_type) ==
    CASE p_type \in {"GE", "ge"} -> Ok("GE")
      [] p_type \in {"LE", "le"} -> Ok("LE")
      [] p_type \in {"GT", "gt"} -> Ok("GT")
      [] p_type \in {"LT", "lt"} -> Ok("LT")
      [] OTHER -> Err("InvalidStructure")

\* the match on p_type in add_predicate
ParsePredicateType(p_type) ==
    CASE p_type = "GE" -> Ok("GE")
      [] p_type = "LE" -> Ok("LE")
      [] p_type = "GT" -> Ok("GT")
      [] p_type = "LT" -> Ok("LT")
      [] OTHER -> Err("InvalidStructure")

\* SubProofRequestBuilder::new (a behaviour follows one builder)
SubProofRequestBuilder_new ==
    /\ request_builder = None /\ sub_proof_request = None
    /\ request_builder' = [value |-> [revealed_attrs |-> BTreeSetNew,
                                      predicates |-> BTreeSetNew]]
    /\ request_calls' = <<>>
    /\ UNCHANGED <<sub_proof_request, schema_vars, overflow_checks, extra_vars, predicate_vars, serde_vars,
                   protocol_vars>>

\* SubProofRequestBuilder::add_revealed_attr
SubProofRequestBuilder_add_revealed_attr(attr) ==
    /\ request_builder # None
    /\ request_builder' =
           [request_builder EXCEPT !.value.revealed_attrs =
                BTreeSetInsert(@, attr)]
    /\ UNCHANGED <<request_calls, sub_proof_request, schema_vars, overflow_checks, extra_vars, predicate_vars, serde_vars,
                   protocol_vars>>

\* add_predicate that takes a p_type it does not know for GE before it
\* returns the error
SubProofRequestBuilder_add_predicate_defaulting(attr_name, p_type, value) ==
    /\ request_builder # None
    /\ Len(request_calls) < MaxRequestCalls
    /\ LET parsed == ParsePredicateType(p_type)
           predicate == [attr_name |-> attr_name,
                         p_type |-> IF parsed.ok THEN parsed.value ELSE "GE",
                         value |-> value]
       IN  /\ request_builder' =
                  [request_builder EXCEPT !.value.predicates =
                       BTreeSetInsertPredicate(@, predicate)]
           /\ request_calls' =
                  Append(request_calls,
                         [attr_name |-> attr_name, p_type |-> p_type,
                          value |-> value,
                          res |-> IF parsed.ok THEN Ok(<<>>) ELSE parsed])
    /\ UNCHANGED <<sub_proof_request, schema_vars, overflow_checks,
                   extra_vars, predicate_vars, serde_vars, protocol_vars>>

\* SubProofRequestBuilder::add_predicate
SubProofRequestBuilder_add_predicate(attr_name, p_type, value) ==
    /\ request_builder # None
    /\ Len(request_calls) < MaxRequestCalls
    /\ LET parsed == ParsePredicateType(p_type)
           predicate == [attr_name |-> attr_name,
                         p_type |-> parsed.value,
                         value |-> value]
       IN  /\ request_builder' =
                  IF parsed.ok
                  THEN [request_builder EXCEPT !.value.predicates =
                            BTreeSetInsertPredicate(@, predicate)]
                  ELSE request_builder
           /\ request_calls' =
                  Append(request_calls,
                         [attr_name |-> attr_name, p_type |-> p_type,
                          value |-> value,
                          res |-> IF parsed.ok THEN Ok(<<>>) ELSE parsed])
    /\ UNCHANGED <<sub_proof_request, schema_vars, overflow_checks, extra_vars, predicate_vars, serde_vars,
                   protocol_vars>>

\* SubProofRequestBuilder::finalize: consumes the builder
SubProofRequestBuilder_finalize ==
    /\ request_builder # None
    /\ sub_proof_request' = request_builder.value
    /\ request_builder' = None
    /\ UNCHANGED <<request_calls, schema_vars, overflow_checks, extra_vars, predicate_vars, serde_vars,
                   protocol_vars>>

RequestInit ==
    /\ request_builder = None
    /\ request_calls = <<>>
    /\ sub_proof_request = None

RequestNext ==
    \/ SubProofRequestBuilder_new
    \/ \E attr \in RequestAttrNames :
           SubProofRequestBuilder_add_revealed_attr(attr)
    \/ \E attr_name \in RequestAttrNames, p_type \in PTypeTokens,
          value \in RequestValues :
           SubProofRequestBuilder_add_predicate(attr_name, p_type, value)
    \/ SubProofRequestBuilder_finalize

(***************************************************************************)
(* Specifications                                                          *)
(***************************************************************************)
(***************************************************************************)
(* Deserialization.  A JSON object is a function from its member names to  *)
(* values; a BigNumber member is a decimal string, a map member is an      *)
(* object of decimal strings.                                              *)
(***************************************************************************)
\* BigNumber::default()
BigNumber_default == [ok |-> TRUE, value |-> 0]

\* a required BigNumber member: present and a decimal
RequiredBigNumber(json, field) ==
    IF field \in DOMAIN json THEN BigNumber_from_dec(json[field])
    ELSE Err("missing field")

\* a BigNumber member under #[serde(default)]
DefaultBigNumber(json, field) ==
    IF field \in DOMAIN json THEN BigNumber_from_dec(json[field])
    ELSE BigNumber_default

\* a required map member: present, and every value a decimal
RequiredMap(json, field) ==
    IF field \notin DOMAIN json THEN Err("missing field")
    ELSE IF \E k \in DOMAIN json[field] : ~BigNumber_from_dec(json[field][k]).ok
    THEN Err("InvalidStructure")
    ELSE Ok([k \in DOMAIN json[field] |->
                BigNumber_from_dec(json[field][k]).value])

\* HashMap::insert: a new key, or a new value for an old key
HashMapInsert(map, key, v) ==
    [k \in DOMAIN map \cup {key} |-> IF k = key THEN v ELSE map[k]]

\* the deserializer without lines 315-317: the legacy member is dropped
CredentialPrimaryPublicKey_deserialize_dropping_rms(json) ==
    LET n == RequiredBigNumber(json, "n")
        s == RequiredBigNumber(json, "s")
        r == RequiredMap(json, "r")
        rms == DefaultBigNumber(json, "rms")
        z == RequiredBigNumber(json, "z")
    IN  IF ~(n.ok /\ s.ok /\ r.ok /\ rms.ok /\ z.ok) THEN Err("serde")
        ELSE Ok([n |-> n.value, s |-> s.value, z |-> z.value, r |-> r.value])

\* the deserializer without the test of line 315: rms is always folded
CredentialPrimaryPublicKey_deserialize_always_folding(json) ==
    LET n == RequiredBigNumber(json, "n")
        s == RequiredBigNumber(json, "s")
        r == RequiredMap(json, "r")
        rms == DefaultBigNumber(json, "rms")
        z == RequiredBigNumber(json, "z")
    IN  IF ~(n.ok /\ s.ok /\ r.ok /\ rms.ok /\ z.ok) THEN Err("serde")
        ELSE Ok([n |-> n.value, s |-> s.value, z |-> z.value,
                 r |-> HashMapInsert(r.value, "master_secret", rms.value)])

\* <CredentialPrimaryPublicKey as Deserialize>::deserialize
CredentialPrimaryPublicKey_deserialize(json) ==
    LET n == RequiredBigNumber(json, "n")
        s == RequiredBigNumber(json, "s")
        r == RequiredMap(json, "r")
        rms == DefaultBigNumber(json, "rms")
        z == RequiredBigNumber(json, "z")
    IN  IF ~(n.ok /\ s.ok /\ r.ok /\ rms.ok /\ z.ok) THEN Err("serde")
        ELSE LET helper_r ==
                     IF rms # BigNumber_default
                     THEN HashMapInsert(r.value, "master_secret", rms.value)
                     ELSE r.value
             IN  Ok([n |-> n.value, s |-> s.value, z |-> z.value,
                     r |-> helper_r])

\* the deserializer without lines 565-567: the legacy member is dropped
PrimaryEqualProof_deserialize_dropping_m1(json) ==
    LET revealed_attrs == RequiredMap(json, "revealed_attrs")
        a_prime == RequiredBigNumber(json, "a_prime")
        e == RequiredBigNumber(json, "e")
        v == RequiredBigNumber(json, "v")
        m == RequiredMap(json, "m")
        m1 == DefaultBigNumber(json, "m1")
    IN  IF ~(revealed_attrs.ok /\ a_prime.ok /\ e.ok /\ v.ok /\ m.ok /\ m1.ok)
        THEN Err("serde")
        ELSE Ok([revealed_attrs |-> revealed_attrs.value,
                 a_prime |-> a_prime.value, e |-> e.value, v |-> v.value,
                 m |-> m.value])

\* the deserializer that folds m1 in only where the map has no entry
PrimaryEqualProof_deserialize_keeping_entry(json) ==
    LET revealed_attrs == RequiredMap(json, "revealed_attrs")
        a_prime == RequiredBigNumber(json, "a_prime")
        e == RequiredBigNumber(json, "e")
        v == RequiredBigNumber(json, "v")
        m == RequiredMap(json, "m")
        m1 == DefaultBigNumber(json, "m1")
    IN  IF ~(revealed_attrs.ok /\ a_prime.ok /\ e.ok /\ v.ok /\ m.ok /\ m1.ok)
        THEN Err("serde")
        ELSE LET helper_m ==
                     IF m1 # BigNumber_default
                            /\ "master_secret" \notin DOMAIN m.value
                     THEN HashMapInsert(m.value, "master_secret", m1.value)
                     ELSE m.value
             IN  Ok([revealed_attrs |-> revealed_attrs.value,
                     a_prime |-> a_prime.value, e |-> e.value, v |-> v.value,
                     m |-> helper_m])

\* <PrimaryEqualProof as Deserialize>::deserialize
PrimaryEqualProof_deserialize(json) ==
    LET revealed_attrs == RequiredMap(json, "revealed_attrs")
        a_prime == RequiredBigNumber(json, "a_prime")
        e == RequiredBigNumber(json, "e")
        v == RequiredBigNumber(json, "v")
        m == RequiredMap(json, "m")
        m1 == DefaultBigNumber(json, "m1")
    IN  IF ~(revealed_attrs.ok /\ a_prime.ok /\ e.ok /\ v.ok /\ m.ok /\ m1.ok)
        THEN Err("serde")
        ELSE LET helper_m ==
                     IF m1 # BigNumber_default
                     THEN HashMapInsert(m.value, "master_secret", m1.value)
                     ELSE m.value
             IN  Ok([revealed_attrs |-> revealed_attrs.value,
                     a_prime |-> a_prime.value, e |-> e.value, v |-> v.value,
                     m |-> helper_m])

\* the decimal strings of the inputs: zero, a number, the same number with
\* a leading zero
DecStrings == {<<"0">>, <<"5">>, <<"0", "5">>}

\* the maps of the inputs: age always, master_secret or not
JsonMaps ==
    {[k \in {"age"} |-> <<"7">>]}
      \cup {[k \in {"age", "master_secret"} |->
                 IF k = "age" THEN <<"7">> ELSE d] : d \in DecStrings}

Restrict(json, names) == [f \in names |-> json[f]]

\* public keys as the tests give them (rctxt is a member the struct does not
\* have), with and without rms, and with the required z left out
PublicKeyJsons ==
    {Restrict([n |-> <<"7">>, s |-> <<"5">>, r |-> r, rms |-> rms,
               rctxt |-> <<"3">>, z |-> <<"3">>], names) :
        r \in JsonMaps, rms \in DecStrings,
        names \in {{"n", "s", "r", "rms", "rctxt", "z"},
                   {"n", "s", "r", "rctxt", "z"},
                   {"n", "s", "r", "rms", "rctxt"}}}

\* equality proofs, with and without m1, and with the required v left out
EqualProofJsons ==
    {Restrict([revealed_attrs |-> [k \in {"name"} |-> <<"7">>],
               a_prime |-> <<"5">>, e |-> <<"3">>, v |-> <<"7">>, m |-> m,
               m1 |-> m1], names) :
        m \in JsonMaps, m1 \in DecStrings,
        names \in {{"revealed_attrs", "a_prime", "e", "v", "m", "m1"},
                   {"revealed_attrs", "a_prime", "e", "v", "m"},
                   {"revealed_attrs", "a_prime", "e", "m", "m1"}}}

\* serde_json::from_str::<CredentialPrimaryPublicKey>
from_str_CredentialPrimaryPublicKey(i) ==
    /\ serde_type = "CredentialPrimaryPublicKey"
    /\ serde_out[i] = None
    /\ serde_out' = [serde_out EXCEPT
           ![i] = CredentialPrimaryPublicKey_deserialize(serde_json_in[i])]
    /\ UNCHANGED <<serde_type, serde_json_in, overflow_checks, extra_vars, schema_vars,
                   request_vars, predicate_vars, protocol_vars>>

\* serde_json::from_str::<PrimaryEqualProof>
from_str_PrimaryEqualProof(i) ==
    /\ serde_type = "PrimaryEqualProof"
    /\ serde_out[i] = None
    /\ serde_out' = [serde_out EXCEPT
           ![i] = PrimaryEqualProof_deserialize(serde_json_in[i])]
    /\ UNCHANGED <<serde_type, serde_json_in, overflow_checks, extra_vars, schema_vars,
                   request_vars, predicate_vars, protocol_vars>>

\* nothing to deserialize
SerdeAtRest ==
    /\ serde_type = "none"
    /\ serde_json_in = <<>>
    /\ serde_out = <<>>

SerdeInit ==
    /\ serde_type \in {"CredentialPrimaryPublicKey", "PrimaryEqualProof"}
    /\ serde_json_in \in
           IF serde_type = "CredentialPrimaryPublicKey"
           THEN PublicKeyJsons \X PublicKeyJsons
           ELSE EqualProofJsons \X EqualProofJsons
    /\ serde_out = <<None, None>>

SerdeNext ==
    \E i \in {1, 2} :
        \/ from_str_CredentialPrimaryPublicKey(i)
        \/ from_str_PrimaryEqualProof(i)

(***************************************************************************)
(* Modular arithmetic and hashing (the bignum layer).  The moduli are      *)
(* scaled down: two safe primes of five and six bits stand for the two     *)
(* 1024-bit safe primes, and a hash into a prime field stands for SHA-256. *)
(***************************************************************************)
\* BigNumber::modulus: the residue in [0, m)
Mod(a, m) == a % m

\* BigNumber::mod_mul
ModMul(a, b, m) == (Mod(a, m) * Mod(b, m)) % m

\* acc * base^exp mod m for exp >= 0, by squaring, four bits of exp in a
\* step.  Each step works out its residues before the next step is taken
\* (TLC would otherwise carry them along unevaluated, one inside the
\* other).
RECURSIVE PowModFrom(_, _, _, _)
PowModFrom(acc, base, exp, m) ==
    LET base2 == (base * base) % m
        base4 == (base2 * base2) % m
        base8 == (base4 * base4) % m
        bits == exp % 16
        low == ((IF bits % 2 = 1 THEN base ELSE 1)
                    * (IF (bits \div 2) % 2 = 1 THEN base2 ELSE 1)) % m
        high == ((IF (bits \div 4) % 2 = 1 THEN base4 ELSE 1)
                     * (IF bits \div 8 = 1 THEN base8 ELSE 1)) % m
        product == (acc * ((low * high) % m)) % m
        base16 == (base8 * base8) % m
    IN  IF exp = 0 THEN acc
        ELSE IF product < m /\ base16 < m
        THEN PowModFrom(product, base16, exp \div 16, m)
        ELSE 0

PowMod(base, exp, m) == PowModFrom(1 % m, Mod(base, m), exp, m)

\* <<g, x>> with a * x = g (mod m) and g = gcd(a, m)  (extended Euclid)
RECURSIVE EGcd(_, _, _, _, _)
EGcd(r0, r1, x0, x1, m) ==
    LET x2 == (x0 - (r0 \div r1) * x1) % m
    IN  IF r1 = 0 THEN <<r0, Mod(x0, m)>>
        ELSE IF x2 < m THEN EGcd(r1, r0 % r1, x1, x2, m)
        ELSE <<0, 0>>

Gcd(a, m) == EGcd(m, Mod(a, m), 0, 1, m)[1]

\* a is invertible modulo m
IsUnit(a, m) == Gcd(a, m) = 1

\* BigNumber::inverse; 0 where a has no inverse
ModInverse(a, m) ==
    LET g == EGcd(m, Mod(a, m), 0, 1, m)
    IN  IF g[1] = 1 THEN g[2] ELSE 0

\* BigNumber::mod_exp: a negative exponent is a power of the inverse
ModExp(base, exp, m) ==
    IF exp >= 0 THEN PowMod(Mod(base, m), exp, m)
    ELSE ModMul(PowMod(ModInverse(base, m), -(exp + 1), m),
                ModInverse(base, m), m)

\* the field of the hash
HashPrime == 1087

HashMultiplier == 31

\* H over a list of numbers: each number enters the digest in order
\* a digest that the number does not enter
HashStep_ignoring_value(digest, value) ==
    (digest * HashMultiplier + 1) % HashPrime

\* the digest after one more number
HashStep(digest, value) ==
    (digest * HashMultiplier + Mod(value, HashPrime) + 1) % HashPrime

\* the numbers enter the digest in order, four in a step while there are
\* four
RECURSIVE HashFrom(_, _)
HashFrom(digest, values) ==
    LET one == HashStep(digest, values[1])
        four == HashStep(HashStep(HashStep(one, values[2]), values[3]),
                         values[4])
    IN  IF values = <<>> THEN digest
        ELSE IF Len(values) >= 4 /\ four < HashPrime
        THEN HashFrom(four, SubSeq(values, 5, Len(values)))
        ELSE IF one < HashPrime THEN HashFrom(one, Tail(values))
        ELSE 0

\* a hash of the length of the list alone
get_hash_as_int_of_length(values) == Len(values) + 1

get_hash_as_int(values) == HashFrom(Len(values) + 1, values)

(***************************************************************************)
(* The random number generator: an ambient stream whose seed is not        *)
(* known.  A call that draws takes the next numbers of the stream.         *)
(***************************************************************************)
RngModulus == 65537

RngMultiplier == 75

\* the state after one draw
RngNext(state) == (state * RngMultiplier + RngMultiplier - 1) % RngModulus

\* a * b modulo RngModulus, within 32 bits
RngMul(a, b) ==
    (((a * (b \div 256)) % RngModulus) * 256 + a * (b % 256)) % RngModulus

\* acc * base^i modulo RngModulus, by squaring
RECURSIVE RngPowFrom(_, _, _)
RngPowFrom(acc, base, i) ==
    IF i = 0 THEN acc
    ELSE RngPowFrom(IF i % 2 = 1 THEN RngMul(acc, base) ELSE acc,
                    RngMul(base, base), i \div 2)

\* the state after i draws: RngNext takes state + 1 to RngMultiplier times
\* state + 1, so i draws multiply state + 1 by RngMultiplier^i
RngAt(state, i) ==
    (RngMul(RngPowFrom(1, RngMultiplier, i), (state + 1) % RngModulus)
         + RngModulus - 1) % RngModulus

\* the i-th draw after state, in [lo, hi)
RandomInRange(state, i, lo, hi) == lo + (RngAt(state, i) % (hi - lo))

\* the i-th draw after state, of at most bits bits
RandomBits(state, i, bits) == RandomInRange(state, i, 0, 2 ^ bits)

(***************************************************************************)
(* Helpers over attribute names                                            *)
(***************************************************************************)
\* BTreeSet union: the sorted names of both schemas
RECURSIVE BTreeSetUnion(_, _)
BTreeSetUnion(a, b) ==
    IF b = <<>> THEN a ELSE BTreeSetUnion(BTreeSetInsert(a, Head(b)), Tail(b))

\* the place of a name in a sorted list of names
IndexOf(names, a) == CHOOSE i \in DOMAIN names : names[i] = a

\* the values of a map in the order of the names
ValuesOf(names, map) == [i \in DOMAIN names |-> map[names[i]]]

\* the product of bases[a]^exps[a] over the names, mod m
RECURSIVE ProdExp(_, _, _, _)
ProdExp(names, bases, exps, m) ==
    IF names = <<>> THEN 1 % m
    ELSE ModMul(ModExp(bases[Head(names)], exps[Head(names)], m),
                ProdExp(Tail(names), bases, exps, m), m)

(***************************************************************************)
(* The sizes of section 4.1, scaled down with the modulus.                 *)
(***************************************************************************)
\* the two safe primes p = 2p' + 1 and q = 2q' + 1 of the scaled modulus
SafePrimes == <<23, 47>>

LARGE_VPRIME == 4

LARGE_VPRIME_TILDE == 5

LARGE_E_START == 4

LARGE_E_END_RANGE == 2

LARGE_ETILDE == 5

LARGE_MTILDE == 5

ITERATION == 4

\* the exponent of the group of units modulo n = p * q: a^x = a^(x mod
\* 2p'q') for every unit a
GroupExponent ==
    2 * ((SafePrimes[1] - 1) \div 2) * ((SafePrimes[2] - 1) \div 2)

\* a response with the sign of the challenge term flipped
Response_subtracting(tilde, c, secret) ==
    (tilde - c * (secret % GroupExponent)) % GroupExponent

\* a response tilde + c * secret.  The integers of the responses are kept
\* as their residues modulo the exponent of the group: a response is only
\* ever the exponent of a unit.
Response(tilde, c, secret) ==
    (tilde + c * (secret % GroupExponent)) % GroupExponent

\* a finite set of integers in ascending order
RECURSIVE SortedSeq(_)
SortedSeq(set) ==
    IF set = {} THEN <<>>
    ELSE LET least == CHOOSE x \in set : \A y \in set : x <= y
         IN  <<least>> \o SortedSeq(set \ {least})

IsPrime(x) == x > 1 /\ \A d \in 2 .. (x - 1) : x % d # 0

(***************************************************************************)
(* Issuer::new_credential_def (section 4.3)                                *)
(***************************************************************************)
\* the number of draws of new_credential_def over k attributes
KeygenDraws(k) == 3 + 2 * k

\* the challenge of the key correctness proof
KeyCorrectnessChallenge(attrs, z, r, z_tilde, r_tilde) ==
    get_hash_as_int(<<z>> \o ValuesOf(attrs, r) \o <<z_tilde>>
                        \o ValuesOf(attrs, r_tilde))

\* the key generation proper: the keys and the key correctness proof
new_credential_primary_keys(schema, non_schema, rng0) ==
    LET attrs == BTreeSetUnion(schema.attrs, non_schema.attrs)
        k == Len(attrs)
        p == (SafePrimes[1] - 1) \div 2
        q == (SafePrimes[2] - 1) \div 2
        n == SafePrimes[1] * SafePrimes[2]
        x == RandomInRange(rng0, 1, 2, n)
        s == ModMul(x, x, n)
        xz == RandomInRange(rng0, 2, 2, p * q)
        xr == [a \in Elems(attrs) |->
                  RandomInRange(rng0, 2 + IndexOf(attrs, a), 2, p * q)]
        z == ModExp(s, xz, n)
        r == [a \in Elems(attrs) |-> ModExp(s, xr[a], n)]
        xz_tilde == RandomInRange(rng0, 3 + k, 2, p * q)
        xr_tilde == [a \in Elems(attrs) |->
                        RandomInRange(rng0, 3 + k + IndexOf(attrs, a), 2, p * q)]
        z_tilde == ModExp(s, xz_tilde, n)
        r_tilde == [a \in Elems(attrs) |-> ModExp(s, xr_tilde[a], n)]
        c == KeyCorrectnessChallenge(attrs, z, r, z_tilde, r_tilde)
    IN  [cred_pub_key |-> [n |-> n, s |-> s, r |-> r, z |-> z],
         cred_priv_key |-> [p |-> p, q |-> q],
         cred_key_correctness_proof |->
             [c |-> c, xz_cap |-> Response(xz_tilde, c, xz),
              xr_cap |-> [a \in Elems(attrs) |->
                             Response(xr_tilde[a], c, xr[a])]]]

\* new_credential_def without the refusal of the empty schema
Issuer_new_credential_def_of_any_schema(schema, non_schema, rng0) ==
    Ok(new_credential_primary_keys(schema, non_schema, rng0))

\* Issuer::new_credential_def: an empty credential schema is refused
Issuer_new_credential_def(schema, non_schema, rng0) ==
    IF schema.attrs = <<>> THEN Err("InvalidStructure")
    ELSE Ok(new_credential_primary_keys(schema, non_schema, rng0))

\* the keys of a map in ascending order
RECURSIVE SortedNames(_)
SortedNames(names) ==
    IF names = {} THEN <<>>
    ELSE LET least == CHOOSE a \in names :
                          \A b \in names \ {a} : StrLess(a, b)
         IN  <<least>> \o SortedNames(names \ {least})

\* the check of a key correctness proof against its public key
check_credential_key_correctness_proof(pub_key, kcp) ==
    LET n == pub_key.n
        attrs == SortedNames(DOMAIN kcp.xr_cap)
    IN  IF DOMAIN kcp.xr_cap # DOMAIN pub_key.r
           \/ ~IsUnit(pub_key.z, n)
           \/ \E a \in DOMAIN pub_key.r : ~IsUnit(pub_key.r[a], n)
        THEN Err("InvalidStructure")
        ELSE LET z_cap == ModMul(ModExp(pub_key.z, -kcp.c, n),
                                 ModExp(pub_key.s, kcp.xz_cap, n), n)
                 r_cap == [a \in Elems(attrs) |->
                              ModMul(ModExp(pub_key.r[a], -kcp.c, n),
                                     ModExp(pub_key.s, kcp.xr_cap[a], n), n)]
                 c == KeyCorrectnessChallenge(attrs, pub_key.z, pub_key.r,
                                              z_cap, r_cap)
             IN  IF c = kcp.c THEN Ok(TRUE) ELSE Err("InvalidProof")

(***************************************************************************)
(* Prover::blind_credential_secrets (section 4.4)                          *)
(***************************************************************************)
\* the names of the values of one kind, in ascending order
AttrsOfKind(values, kind) ==
    SortedNames({a \in DOMAIN values : values[a].kind = kind})

\* the attribute values alone
ValueMap(values) == [a \in DOMAIN values |-> values[a].value]

BlindDraws(k) == 2 + k

\* the blinded secrets, the blinding factors and the correctness proof
blinded_credential_secrets(pub_key, values, credential_nonce, rng0) ==
    LET n == pub_key.n
        hidden == AttrsOfKind(values, "Hidden")
        m == ValueMap(values)
        v_prime == RandomInRange(rng0, 1, -(2 ^ (LARGE_VPRIME - 1)),
                                 2 ^ (LARGE_VPRIME - 1))
        u == ModMul(ModExp(pub_key.s, v_prime, n),
                    ProdExp(hidden, pub_key.r, m, n), n)
        v_dash_tilde == RandomBits(rng0, 2, LARGE_VPRIME_TILDE)
        m_tilde == [a \in Elems(hidden) |->
                       RandomBits(rng0, 2 + IndexOf(hidden, a), LARGE_MTILDE)]
        u_tilde == ModMul(ModExp(pub_key.s, v_dash_tilde, n),
                          ProdExp(hidden, pub_key.r, m_tilde, n), n)
        c == get_hash_as_int(<<u, u_tilde, credential_nonce>>)
    IN  [blinded_credential_secrets |->
             [u |-> u, hidden_attributes |-> Elems(hidden)],
         credential_secrets_blinding_factors |-> [v_prime |-> v_prime],
         blinded_credential_secrets_correctness_proof |->
             [c |-> c,
              v_dash_cap |-> Response(v_dash_tilde, c, v_prime),
              m_caps |-> [a \in Elems(hidden) |->
                             Response(m_tilde[a], c, m[a])]]]

\* blind_credential_secrets without the check of the key correctness proof
Prover_blind_credential_secrets_unchecked(pub_key, kcp, values, credential_nonce, rng0) ==
    Ok(blinded_credential_secrets(pub_key, values, credential_nonce, rng0))

\* Prover::blind_credential_secrets: the key correctness proof is checked
\* first
Prover_blind_credential_secrets(pub_key, kcp, values, credential_nonce, rng0) ==
    LET Checked(checked) ==
            IF ~checked.ok THEN checked
            ELSE Ok(blinded_credential_secrets(pub_key, values,
                                               credential_nonce, rng0))
    IN  Checked(check_credential_key_correctness_proof(pub_key, kcp))

(***************************************************************************)
(* Issuer::sign_credential (section 4.5)                                   *)
(***************************************************************************)
\* the check of the blinded secrets correctness proof
check_blinded_credential_secrets_correctness_proof(secrets, bcp, nonce, pub_key) ==
    LET n == pub_key.n
        hidden == SortedNames(DOMAIN bcp.m_caps)
    IN  IF ~(DOMAIN bcp.m_caps \subseteq DOMAIN pub_key.r)
           \/ ~IsUnit(secrets.u, n)
        THEN Err("InvalidStructure")
        ELSE LET u_cap == ModMul(ModExp(secrets.u, -bcp.c, n),
                              ModMul(ModExp(pub_key.s, bcp.v_dash_cap, n),
                                     ProdExp(hidden, pub_key.r, bcp.m_caps, n),
                                     n), n)
                 c == get_hash_as_int(<<secrets.u, u_cap, nonce>>)
             IN  IF c = bcp.c THEN Ok(TRUE) ELSE Err("InvalidStructure")

\* the primes of [2^LARGE_E_START, 2^LARGE_E_START + 2^LARGE_E_END_RANGE)
PrimesInRange ==
    SortedSeq({x \in (2 ^ LARGE_E_START) ..
                      (2 ^ LARGE_E_START + 2 ^ LARGE_E_END_RANGE - 1) :
                  IsPrime(x)})

SignDraws == 3

\* the signature and its correctness proof
sign_primary_credential(secrets, issuance_nonce, values, pub_key, priv_key, rng0) ==
    LET n == pub_key.n
        order == priv_key.p * priv_key.q
        known == AttrsOfKind(values, "Known")
        m == ValueMap(values)
        v == RandomInRange(rng0, 1, 2 ^ (LARGE_VPRIME - 1),
                           2 ^ (LARGE_VPRIME - 1) + 2 ^ (LARGE_E_START + 1))
        e == PrimesInRange[RandomInRange(rng0, 2, 1, Len(PrimesInRange) + 1)]
        q == ModMul(pub_key.z,
                    ModInverse(ModMul(secrets.u,
                                      ModMul(ProdExp(known, pub_key.r, m, n),
                                             ModExp(pub_key.s, v, n), n), n),
                               n), n)
        d == ModInverse(e, order)
        a == ModExp(q, d, n)
        r == RandomInRange(rng0, 3, 0, order)
        a_tilde == ModExp(q, r, n)
        c == get_hash_as_int(<<q, a, a_tilde, issuance_nonce>>)
    IN  [cred_signature |-> [a |-> a, e |-> e, v |-> v],
         signature_correctness_proof |->
             [se |-> (r - c * d) % order, c |-> c]]

\* sign_credential without the check of the blinded secrets correctness
\* proof
Issuer_sign_credential_unchecked(secrets, bcp, credential_nonce, issuance_nonce, values, pub_key, priv_key, rng0) ==
    Ok(sign_primary_credential(secrets, issuance_nonce, values, pub_key,
                               priv_key, rng0))

\* Issuer::sign_credential: the blinded secrets correctness proof is
\* checked against the credential nonce first
Issuer_sign_credential(secrets, bcp, credential_nonce, issuance_nonce, values, pub_key, priv_key, rng0) ==
    LET Checked(checked) ==
            IF ~checked.ok THEN checked
            ELSE Ok(sign_primary_credential(secrets, issuance_nonce, values,
                                            pub_key, priv_key, rng0))
    IN  Checked(check_blinded_credential_secrets_correctness_proof(
                    secrets, bcp, credential_nonce, pub_key))

(***************************************************************************)
(* Prover::process_credential_signature (section 4.6)                      *)
(***************************************************************************)
\* process_credential_signature without its two checks
Prover_process_credential_signature_unchecked(signature, values, scp, factors, pub_key, issuance_nonce) ==
    Ok([a |-> signature.a, e |-> signature.e,
        v |-> factors.v_prime + signature.v])

Prover_process_credential_signature(signature, values, scp, factors, pub_key, issuance_nonce) ==
    LET n == pub_key.n
        v == factors.v_prime + signature.v
        m == ValueMap(values)
        q == ModMul(pub_key.z,
                    ModInverse(ModMul(ModExp(pub_key.s, v, n),
                                      ProdExp(SortedNames(DOMAIN m),
                                              pub_key.r, m, n), n), n), n)
        a_cap == ModMul(ModExp(signature.a, scp.c, n),
                        ModExp(q, scp.se, n), n)
        c == get_hash_as_int(<<q, signature.a, a_cap, issuance_nonce>>)
    IN  IF DOMAIN m # DOMAIN pub_key.r THEN Err("InvalidStructure")
        ELSE IF ModExp(signature.a, signature.e, n) # q
        THEN Err("InvalidStructure")
        ELSE IF c # scp.c THEN Err("InvalidStructure")
        ELSE Ok([a |-> signature.a, e |-> signature.e, v |-> v])

(***************************************************************************)
(* four_squares (section 4.8): the decomposition of delta into four        *)
(* squares, the largest root first.                                        *)
(***************************************************************************)
\* the largest element of a set of numbers
Largest(set) == CHOOSE x \in set : \A y \in set : y <= x

\* the largest root in lo .. hi - 1 whose square is at most x, where the
\* square of lo is: the interval is cut in sixteen until it has at most
\* sixteen numbers
RECURSIVE RootBetween(_, _, _)
RootBetween(x, lo, hi) ==
    LET width == (hi - lo + 15) \div 16
        from == Largest({r \in {lo + k * width : k \in 0 .. 15} :
                            r < hi /\ r * r <= x})
    IN  IF hi - lo <= 16
        THEN Largest({r \in lo .. hi - 1 : r * r <= x})
        ELSE IF from + width < hi THEN RootBetween(x, from, from + width)
        ELSE RootBetween(x, from, hi)

\* largest_square_less_than: the integer square root (46341^2 > i32::MAX)
largest_square_less_than(x) == RootBetween(x, 0, 46341)

NoRoots == [found |-> FALSE]

Roots(roots) == [found |-> TRUE, roots |-> roots]

\* r is the root of x
IsRootOf(r, x) == r * r = x

\* the innermost loop: the first k, from the largest root down to 1, that
\* leaves a square
ThirdRoot(rest) ==
    LET last(k) == largest_square_less_than(rest - k * k)
        WithRoot(k) == Roots(<<k, last(k)>>)
        FirstOf(hits) ==
            IF hits = {} THEN NoRoots ELSE WithRoot(Largest(hits))
    IN  FirstOf({k \in 1 .. largest_square_less_than(rest) :
                    IsRootOf(last(k), rest - k * k)})

\* the middle loop: the first j, from hi down to 1, that is the root of
\* rest or leaves a sum of two squares.  The loop is run sixteen values of
\* j at a time.
RECURSIVE SecondRootFrom(_, _)
SecondRootFrom(rest, hi) ==
    LET lo == IF hi > 16 THEN hi - 15 ELSE 1
        WithRoot(j) ==
            IF j * j = rest THEN Roots(<<j, 0, 0>>)
            ELSE Roots(<<j>> \o ThirdRoot(rest - j * j).roots)
        FirstOf(hits) ==
            IF hits # {} THEN WithRoot(Largest(hits))
            ELSE IF lo = 1 THEN NoRoots
            ELSE SecondRootFrom(rest, lo - 1)
    IN  FirstOf({j \in lo .. hi :
                    j * j = rest \/ ThirdRoot(rest - j * j).found})

SecondRoot(rest) == SecondRootFrom(rest, largest_square_less_than(rest))

\* the outer loop: i from the largest root down to 1
RECURSIVE FirstRoot(_, _)
FirstRoot(delta, i) ==
    LET WithInner(inner) ==
            IF inner.found THEN Roots(<<i>> \o inner.roots)
            ELSE FirstRoot(delta, i - 1)
    IN  IF i = 0 THEN Roots(<<0, 0, 0, 0>>)
        ELSE IF i * i = delta THEN Roots(<<i, 0, 0, 0>>)
        ELSE WithInner(SecondRoot(delta - i * i))

four_squares(delta) ==
    IF delta < 0 THEN Err("InvalidStructure")
    ELSE Ok(FirstRoot(delta, largest_square_less_than(delta)).roots)

(***************************************************************************)
(* ProofBuilder::add_sub_proof_request: the commitments (sections 4.7 and  *)
(* 4.8).  The four roots and delta are numbered 1 to 4 and 5.              *)
(***************************************************************************)
\* the names of a sorted list that are not in a set
RECURSIVE Without(_, _)
Without(names, set) ==
    IF names = <<>> THEN <<>>
    ELSE IF Head(names) \in set THEN Without(Tail(names), set)
    ELSE <<Head(names)>> \o Without(Tail(names), set)

\* the product of bases[i]^exps[i] over the indices of exps, mod m
RECURSIVE ProdExpSeq(_, _, _, _)
ProdExpSeq(i, bases, exps, m) ==
    IF i = 0 THEN 1 % m
    ELSE ModMul(ModExp(bases[i], exps[i], m),
                ProdExpSeq(i - 1, bases, exps, m), m)

\* the sum of a[i] * b[i] over 1 .. i
RECURSIVE SumProd(_, _, _)
SumProd(i, a, b) == IF i = 0 THEN 0 ELSE a[i] * b[i] + SumProd(i - 1, a, b)

\* the draws of one equality commitment over k unrevealed attributes
EqDraws(k) == 3 + k

\* the draws of one inequality commitment
NeDraws == 3 * ITERATION + 3

\* Prover::_init_eq_proof
init_eq_proof(pub_key, signature, values, revealed, rng0) ==
    LET n == pub_key.n
        m == ValueMap(values)
        unrevealed == Without(SortedNames(DOMAIN pub_key.r), revealed)
        r_a == RandomBits(rng0, 1, LARGE_VPRIME)
        a_prime == ModMul(signature.a, ModExp(pub_key.s, r_a, n), n)
        e_tilde == RandomBits(rng0, 2, LARGE_ETILDE)
        v_tilde == RandomBits(rng0, 3, LARGE_VPRIME_TILDE)
        m_tilde == [a \in Elems(unrevealed) |->
                       RandomBits(rng0, 3 + IndexOf(unrevealed, a),
                                  LARGE_MTILDE)]
        t == ModMul(ModExp(a_prime, e_tilde, n),
                    ModMul(ModExp(pub_key.s, v_tilde, n),
                           ProdExp(unrevealed, pub_key.r, m_tilde, n), n), n)
    IN  [a_prime |-> a_prime, t |-> t, e_tilde |-> e_tilde,
         e_prime |-> signature.e - 2 ^ LARGE_E_START,
         v_tilde |-> v_tilde, v_prime |-> signature.v - signature.e * r_a,
         m_tilde |-> m_tilde, m |-> m, revealed |-> revealed]

\* the first moves of an inequality proof: z^u_i s^r_i for the four roots,
\* z^(+-mj) s^r_delta, and the product of the T_i^u_i with s^alpha
calc_tne(pub_key, u, r, mj, alpha, t, is_less_predicate) ==
    LET n == pub_key.n
        tau == [i \in 1 .. ITERATION |->
                   ModMul(ModExp(pub_key.z, u[i], n),
                          ModExp(pub_key.s, r[i], n), n)]
        tau_delta == ModMul(ModExp(pub_key.z,
                                   IF is_less_predicate THEN -mj ELSE mj, n),
                            ModExp(pub_key.s, r[ITERATION + 1], n), n)
        q == ModMul(ProdExpSeq(ITERATION, t, u, n),
                    ModExp(pub_key.s, alpha, n), n)
    IN  tau \o <<tau_delta, q>>

\* Prover::_init_ne_proof: the draws are those after the place base
init_ne_proof(pub_key, predicate, attr_value, mj_tilde, rng0, base) ==
    LET n == pub_key.n
        r == [i \in 1 .. ITERATION + 1 |->
                 RandomBits(rng0, base + i, LARGE_VPRIME)]
        u_tilde == [i \in 1 .. ITERATION |->
                       RandomBits(rng0, base + ITERATION + 1 + i,
                                  LARGE_MTILDE)]
        r_tilde == [i \in 1 .. ITERATION + 1 |->
                       RandomBits(rng0, base + 2 * ITERATION + 1 + i,
                                  LARGE_VPRIME_TILDE)]
        alpha_tilde == RandomBits(rng0, base + 3 * ITERATION + 3,
                                  LARGE_VPRIME_TILDE)
        Committed(u, t) ==
            Ok([c_list |-> t,
                tau_list |-> calc_tne(pub_key, u_tilde, r_tilde, mj_tilde,
                                      alpha_tilde, t, is_less(predicate)),
                u |-> u, u_tilde |-> u_tilde, r |-> r, r_tilde |-> r_tilde,
                alpha_tilde |-> alpha_tilde, predicate |-> predicate, t |-> t])
        WithValues(u) ==
            Committed(u, [i \in 1 .. ITERATION + 1 |->
                             ModMul(ModExp(pub_key.z, u[i], n),
                                    ModExp(pub_key.s, r[i], n), n)])
        WithRoots(delta, roots) ==
            IF ~roots.ok THEN roots
            ELSE WithValues(roots.value \o <<delta>>)
        WithDelta(delta) ==
            IF delta.panic THEN Panicked
            ELSE WithRoots(delta.value, four_squares(delta.value))
    IN  WithDelta(get_delta(predicate, attr_value))

\* the inequality commitments of the predicates after the first done ones,
\* in the order of the set; the first failure ends the call
RECURSIVE init_ne_proofs(_, _, _, _, _, _, _)
init_ne_proofs(pub_key, predicates, m, m_tilde, rng0, base, done) ==
    LET predicate == predicates[Len(done) + 1]
        Then(next) ==
            IF next = Panicked THEN Panicked
            ELSE IF ~next.ok THEN next
            ELSE init_ne_proofs(pub_key, predicates, m, m_tilde, rng0, base,
                                Append(done, next.value))
    IN  IF Len(done) = Len(predicates) THEN Ok(done)
        ELSE IF predicate.attr_name \notin DOMAIN m_tilde
        THEN Err("InvalidStructure")
        ELSE Then(init_ne_proof(pub_key, predicate, m[predicate.attr_name],
                                m_tilde[predicate.attr_name], rng0,
                                base + NeDraws * Len(done)))

\* the concatenation of one field of the records of a sequence
RECURSIVE Flatten(_, _)
Flatten(records, field) ==
    IF records = <<>> THEN <<>>
    ELSE Head(records)[field] \o Flatten(Tail(records), field)

\* BigNumber::to_bytes: the big-endian bytes of a non-negative number, the
\* most significant byte not zero
RECURSIVE BigNumber_to_bytes(_)
BigNumber_to_bytes(x) ==
    IF x = 0 THEN <<>>
    ELSE Append(BigNumber_to_bytes(x \div 256), x % 256)

\* BigNumber::from_bytes
RECURSIVE BigNumber_from_bytes(_)
BigNumber_from_bytes(bytes) ==
    IF bytes = <<>> THEN 0
    ELSE BigNumber_from_bytes(SubSeq(bytes, 1, Len(bytes) - 1)) * 256
             + bytes[Len(bytes)]

\* the numbers of a list of byte strings
NumbersOf(list) == [i \in DOMAIN list |-> BigNumber_from_bytes(list[i])]

\* AppendByteArray::append_vec: the bytes of every element, pushed in order
append_vec(self, other) ==
    self \o [i \in DOMAIN other |-> BigNumber_to_bytes(other[i])]

\* PrimaryEqualInitProof::as_list
PrimaryEqualInitProof_as_list(eq) == <<BigNumber_to_bytes(eq.a_prime)>>

\* PrimaryEqualInitProof::as_tau_list
PrimaryEqualInitProof_as_tau_list(eq) == <<BigNumber_to_bytes(eq.t)>>

\* for ne_proof in self.ne_proofs.iter() { list.append_vec(..) }
RECURSIVE AppendEach(_, _, _)
AppendEach(list, ne_proofs, field) ==
    IF ne_proofs = <<>> THEN list
    ELSE AppendEach(append_vec(list, Head(ne_proofs)[field]),
                    Tail(ne_proofs), field)

\* as_c_list taking the inequality proofs last to first
PrimaryInitProof_as_c_list_backwards(init) ==
    AppendEach(PrimaryEqualInitProof_as_list(init.eq_proof),
               [j \in DOMAIN init.ne_proofs |->
                    init.ne_proofs[Len(init.ne_proofs) + 1 - j]],
               "c_list")

\* PrimaryInitProof::as_c_list
PrimaryInitProof_as_c_list(init) ==
    AppendEach(PrimaryEqualInitProof_as_list(init.eq_proof), init.ne_proofs,
               "c_list")

\* PrimaryInitProof::as_tau_list
PrimaryInitProof_as_tau_list(init) ==
    AppendEach(PrimaryEqualInitProof_as_tau_list(init.eq_proof),
               init.ne_proofs, "tau_list")

ProofBuilder_add_sub_proof_request(request, schema, non_schema, signature, values, pub_key, rng0) ==
    LET attrs == BTreeSetUnion(schema.attrs, non_schema.attrs)
        revealed == Elems(request.revealed_attrs)
        WithProofs(primary) ==
            Ok([eq_proof |-> primary.eq_proof,
                ne_proofs |-> primary.ne_proofs,
                c_list |-> PrimaryInitProof_as_c_list(primary),
                tau_list |-> PrimaryInitProof_as_tau_list(primary)])
        WithNeProofs(eq, ne) ==
            IF ne = Panicked THEN Panicked
            ELSE IF ~ne.ok THEN ne
            ELSE WithProofs([eq_proof |-> eq, ne_proofs |-> ne.value])
        WithEqProof(eq) ==
            WithNeProofs(eq, init_ne_proofs(
                                 pub_key, request.predicates, eq.m, eq.m_tilde,
                                 rng0,
                                 EqDraws(Len(attrs) - Cardinality(revealed)),
                                 <<>>))
    IN  IF Elems(attrs) # DOMAIN values
           \/ Elems(attrs) # DOMAIN pub_key.r
           \/ ~(revealed \subseteq Elems(schema.attrs))
        THEN Err("InvalidStructure")
        ELSE WithEqProof(init_eq_proof(pub_key, signature, values, revealed,
                                       rng0))

(***************************************************************************)
(* ProofBuilder::finalize: the challenge and the responses                 *)
(***************************************************************************)
\* Prover::_finalize_eq_proof
finalize_eq_proof(eq, challenge) ==
    [revealed_attrs |-> [a \in eq.revealed |-> eq.m[a]],
     a_prime |-> eq.a_prime,
     e |-> Response(eq.e_tilde, challenge, eq.e_prime),
     v |-> Response(eq.v_tilde, challenge, eq.v_prime),
     m |-> [a \in DOMAIN eq.m_tilde |->
               Response(eq.m_tilde[a], challenge, eq.m[a])]]

\* Prover::_finalize_ne_proof
finalize_ne_proof(ne, eq_proof, challenge) ==
    [u |-> [i \in 1 .. ITERATION |->
               Response(ne.u_tilde[i], challenge, ne.u[i])],
     r |-> [i \in 1 .. ITERATION + 1 |->
               Response(ne.r_tilde[i], challenge, ne.r[i])],
     mj |-> eq_proof.m[ne.predicate.attr_name],
     alpha |-> Response(ne.alpha_tilde, challenge,
                        ne.r[ITERATION + 1] - SumProd(ITERATION, ne.u, ne.r)),
     t |-> ne.t,
     predicate |-> ne.predicate]

ProofBuilder_finalize(init, nonce) ==
    LET challenge == get_hash_as_int(NumbersOf(init.tau_list \o init.c_list)
                                         \o <<nonce>>)
        eq_proof == finalize_eq_proof(init.eq_proof, challenge)
    IN  Ok([proofs |->
                <<[primary_proof |->
                       [eq_proof |-> eq_proof,
                        ne_proofs |->
                            [j \in DOMAIN init.ne_proofs |->
                                finalize_ne_proof(init.ne_proofs[j], eq_proof,
                                                  challenge)]]]>>,
            aggregated_proof |-> [c_hash |-> challenge,
                                  c_list |-> init.c_list]])

(***************************************************************************)
(* ProofVerifier::verify (sections 4.7 to 4.9)                             *)
(***************************************************************************)
\* Verifier::_verify_equality: the first move the responses stand for.  The
\* revealed part is z over A'^(2^LARGE_E_START) and the r_a^m_a of the
\* revealed attributes.
verify_equality(pub_key, eq_proof, c_hash, attrs) ==
    LET n == pub_key.n
        revealed == SortedNames(DOMAIN eq_proof.revealed_attrs)
        unrevealed == Without(attrs, DOMAIN eq_proof.revealed_attrs)
        rar == ModMul(ModExp(eq_proof.a_prime, 2 ^ LARGE_E_START, n),
                      ProdExp(revealed, pub_key.r, eq_proof.revealed_attrs, n),
                      n)
        t1 == ModMul(ModExp(eq_proof.a_prime, eq_proof.e, n),
                     ModMul(ModExp(pub_key.s, eq_proof.v, n),
                            ProdExp(unrevealed, pub_key.r, eq_proof.m, n), n),
                     n)
        t2 == ModExp(ModMul(pub_key.z, ModInverse(rar, n), n), -c_hash, n)
    IN  <<ModMul(t1, t2, n)>>

\* Verifier::_verify_ne_predicate; delta_prime is the number get_delta_prime
\* has returned
verify_ne_predicate(pub_key, ne_proof, c_hash, delta_prime) ==
    LET n == pub_key.n
        less == is_less(ne_proof.predicate)
        tau == calc_tne(pub_key, ne_proof.u, ne_proof.r, ne_proof.mj,
                        ne_proof.alpha, ne_proof.t, less)
        back == [i \in 1 .. ITERATION + 1 |->
                    ModExp(ne_proof.t[i], -c_hash, n)]
        shift == IF less
                 THEN ModInverse(ModExp(pub_key.z, delta_prime, n), n)
                 ELSE ModExp(pub_key.z, delta_prime, n)
    IN  [i \in 1 .. ITERATION + 2 |->
            IF i <= ITERATION THEN ModMul(back[i], tau[i], n)
            ELSE IF i = ITERATION + 1
            THEN ModMul(ModExp(ModMul(ne_proof.t[i], shift, n), -c_hash, n),
                        tau[i], n)
            ELSE ModMul(back[ITERATION + 1], tau[i], n)]

\* the first moves of the inequality proofs after the first done ones; a
\* panic of get_delta_prime ends the call
RECURSIVE verify_ne_predicates(_, _, _, _, _)
verify_ne_predicates(pub_key, ne_proofs, c_hash, done, tau_list) ==
    IF done = Len(ne_proofs) THEN Ok(tau_list)
    ELSE LET ne_proof == ne_proofs[done + 1]
             delta_prime == get_delta_prime(ne_proof.predicate)
         IN  IF delta_prime.panic THEN Panicked
             ELSE IF ~delta_prime.value.ok THEN delta_prime.value
             ELSE verify_ne_predicates(
                      pub_key, ne_proofs, c_hash, done + 1,
                      tau_list \o verify_ne_predicate(
                                      pub_key, ne_proof, c_hash,
                                      delta_prime.value.value))

\* the predicates of the inequality proofs, in their order
PredicatesOf(ne_proofs) == [j \in DOMAIN ne_proofs |-> ne_proofs[j].predicate]

ProofVerifier_verify(proof_in, nonce, request, schema, non_schema, pub_key) ==
    LET attrs == BTreeSetUnion(schema.attrs, non_schema.attrs)
        primary == proof_in.proofs[1].primary_proof
        c_hash == proof_in.aggregated_proof.c_hash
        c_list == <<primary.eq_proof.a_prime>>
                      \o Flatten(primary.ne_proofs, "t")
        ne == verify_ne_predicates(pub_key, primary.ne_proofs, c_hash, 0, <<>>)
    IN  IF DOMAIN primary.eq_proof.revealed_attrs
               # Elems(request.revealed_attrs)
           \/ PredicatesOf(primary.ne_proofs) # request.predicates
           \/ Elems(attrs) # DOMAIN pub_key.r
           \/ ~IsUnit(primary.eq_proof.a_prime, pub_key.n)
           \/ \E j \in DOMAIN primary.ne_proofs :
                  \E i \in 1 .. ITERATION + 1 :
                      ~IsUnit(primary.ne_proofs[j].t[i], pub_key.n)
        THEN Err("InvalidStructure")
        ELSE IF ne = Panicked THEN Panicked
        ELSE IF ~ne.ok THEN ne
        ELSE Ok(get_hash_as_int(
                    verify_equality(pub_key, primary.eq_proof, c_hash, attrs)
                        \o ne.value \o c_list \o <<nonce>>) = c_hash)

(***************************************************************************)
(* One run of the calls of test demo, on inputs drawn from small sets      *)
(***************************************************************************)
\* the credential schemas of the runs
ProtocolSchemas == {<<"age">>, <<"age", "name">>}

\* the values of the attribute age
AgeValues == {2, 28}

\* the constants of the predicates on age
PredicateValues == {I32Min, 18, 28, 29, I32Max}

\* the seeds of the random number generator
Seeds == {1, 2}

\* the (credential nonce, issuance nonce, proof request nonce) of the runs
NonceTriples == {<<9, 11, 13>>, <<11, 9, 700>>}

\* the value of every attribute of a schema: age and name known to the
\* issuer, the master secret hidden
ProtocolValues(schema, age) ==
    [a \in Elems(schema) \cup {"master_secret"} |->
        CASE a = "age" -> [value |-> age, kind |-> "Known"]
          [] a = "name" -> [value |-> 5, kind |-> "Known"]
          [] a = "master_secret" -> [value |-> 3, kind |-> "Hidden"]]

\* the predicate sets of the requests: none, one predicate on age, or the
\* two predicates age GE 18 and age LE 28
ProtocolPredicates ==
    {<<>>}
      \cup {<<[attr_name |-> "age", p_type |-> t, value |-> k]>> :
                t \in PredicateType, k \in PredicateValues}
      \cup {BTreeSetInsertPredicate(
                 <<[attr_name |-> "age", p_type |-> "LE", value |-> 28]>>,
                 [attr_name |-> "age", p_type |-> "GE", value |-> 18])}

\* the requests on a schema: name revealed or not, where the schema has it
ProtocolRequests(schema) ==
    {[revealed_attrs |-> revealed, predicates |-> predicates] :
        revealed \in {<<>>} \cup
            (IF "name" \in Elems(schema) THEN {<<"name">>} ELSE {}),
        predicates \in ProtocolPredicates}

\* the call has failed: the run ends
Fails(result) ==
    /\ step' = "failed"
    /\ failure' = result

NewCredentialDef ==
    /\ step = "new_credential_def"
    /\ credential_schema # None /\ non_credential_schema # None
    /\ LET result == Issuer_new_credential_def(credential_schema,
                                               non_credential_schema, rng)
       IN  IF result.ok
           THEN /\ cred_def' = result.value
                /\ step' = "blind_credential_secrets"
                /\ UNCHANGED failure
           ELSE Fails(result) /\ UNCHANGED cred_def
    /\ rng' = RngAt(rng, KeygenDraws(Len(BTreeSetUnion(
                                         credential_schema.attrs,
                                         non_credential_schema.attrs))))
    /\ UNCHANGED <<non_credential_schema, cred_values, nonces,
                   blinded, signed, init_proofs, proof, verify_out,
                   schema_vars, request_vars, overflow_checks, extra_vars, predicate_vars,
                   serde_vars>>

BlindCredentialSecrets ==
    /\ step = "blind_credential_secrets"
    /\ LET result == Prover_blind_credential_secrets(
                         cred_def.cred_pub_key,
                         cred_def.cred_key_correctness_proof, cred_values,
                         nonces[1], rng)
       IN  IF result.ok
           THEN /\ blinded' = result.value
                /\ step' = "sign_credential"
                /\ UNCHANGED failure
           ELSE Fails(result) /\ UNCHANGED blinded
    /\ rng' = RngAt(rng, BlindDraws(
                             Len(AttrsOfKind(cred_values, "Hidden"))))
    /\ UNCHANGED <<non_credential_schema, cred_values, nonces, cred_def,
                   signed, init_proofs, proof, verify_out, schema_vars,
                   request_vars, overflow_checks, extra_vars, predicate_vars, serde_vars>>

SignCredential ==
    /\ step = "sign_credential"
    /\ LET result == Issuer_sign_credential(
                         blinded.blinded_credential_secrets,
                         blinded.blinded_credential_secrets_correctness_proof,
                         nonces[1], nonces[2], cred_values,
                         cred_def.cred_pub_key, cred_def.cred_priv_key, rng)
       IN  IF result.ok
           THEN /\ signed' = result.value
                /\ step' = "process_credential_signature"
                /\ UNCHANGED failure
           ELSE Fails(result) /\ UNCHANGED signed
    /\ rng' = RngAt(rng, SignDraws)
    /\ UNCHANGED <<non_credential_schema, cred_values, nonces, cred_def,
                   blinded, init_proofs, proof, verify_out, schema_vars,
                   request_vars, overflow_checks, extra_vars, predicate_vars, serde_vars>>

ProcessCredentialSignature ==
    /\ step = "process_credential_signature"
    /\ LET result == Prover_process_credential_signature(
                         signed.cred_signature, cred_values,
                         signed.signature_correctness_proof,
                         blinded.credential_secrets_blinding_factors,
                         cred_def.cred_pub_key, nonces[2])
       IN  IF result.ok
           THEN /\ signed' = [signed EXCEPT !.cred_signature = result.value]
                /\ step' = "add_sub_proof_request"
                /\ UNCHANGED failure
           ELSE Fails(result) /\ UNCHANGED signed
    /\ UNCHANGED <<rng, non_credential_schema, cred_values, nonces, cred_def,
                   blinded, init_proofs, proof, verify_out, schema_vars,
                   request_vars, overflow_checks, extra_vars, predicate_vars, serde_vars>>

AddSubProofRequest ==
    /\ step = "add_sub_proof_request"
    /\ LET Returns(result) ==
               IF result # Panicked /\ result.ok
               THEN /\ init_proofs' = result.value
                    /\ step' = "finalize"
                    /\ UNCHANGED failure
               ELSE Fails(result) /\ UNCHANGED init_proofs
       IN  Returns(ProofBuilder_add_sub_proof_request(
                       sub_proof_request, credential_schema,
                       non_credential_schema, signed.cred_signature,
                       cred_values, cred_def.cred_pub_key, rng))
    /\ rng' = RngAt(rng, EqDraws(Len(credential_schema.attrs)
                                     + Len(non_credential_schema.attrs)
                                     - Len(sub_proof_request.revealed_attrs))
                             + NeDraws * Len(sub_proof_request.predicates))
    /\ UNCHANGED <<non_credential_schema, cred_values, nonces, cred_def,
                   blinded, signed, proof, verify_out, schema_vars,
                   request_vars, overflow_checks, extra_vars, predicate_vars, serde_vars>>

Finalize ==
    /\ step = "finalize"
    /\ proof' = ProofBuilder_finalize(init_proofs, nonces[3]).value
    /\ init_proofs' = None
    /\ step' = "verify"
    /\ UNCHANGED <<failure, rng, non_credential_schema, cred_values, nonces,
                   cred_def, blinded, signed, verify_out, schema_vars,
                   request_vars, overflow_checks, extra_vars, predicate_vars, serde_vars>>

Verify ==
    /\ step = "verify"
    /\ verify_out' = ProofVerifier_verify(proof, nonces[3], sub_proof_request,
                                          credential_schema,
                                          non_credential_schema,
                                          cred_def.cred_pub_key)
    /\ step' = "done"
    /\ UNCHANGED <<failure, rng, non_credential_schema, cred_values, nonces,
                   cred_def, blinded, signed, init_proofs, proof, schema_vars,
                   request_vars, overflow_checks, extra_vars, predicate_vars, serde_vars>>

\* no run
ProtocolAtRest ==
    /\ step = "none"
    /\ failure = None
    /\ rng = 0
    /\ non_credential_schema = None
    /\ cred_values = None
    /\ nonces = <<>>
    /\ cred_def = None
    /\ blinded = None
    /\ signed = None
    /\ init_proofs = None
    /\ proof = None
    /\ verify_out = None

\* the schemas, the values, the nonces and the request are there; nothing
\* has been called
ProtocolInit ==
    /\ schema_builder = None
    /\ credential_schema \in {[attrs |-> attrs] : attrs \in ProtocolSchemas}
    /\ schema_calls = credential_schema.attrs
    /\ request_builder = None
    /\ request_calls = <<>>
    /\ sub_proof_request \in ProtocolRequests(credential_schema.attrs)
    /\ non_credential_schema = [attrs |-> <<"master_secret">>]
    /\ cred_values \in {ProtocolValues(credential_schema.attrs, age) :
                            age \in AgeValues}
    /\ nonces \in NonceTriples
    /\ rng \in Seeds
    /\ step = "new_credential_def"
    /\ failure = None
    /\ cred_def = None
    /\ blinded = None
    /\ signed = None
    /\ init_proofs = None
    /\ proof = None
    /\ verify_out = None

ProtocolNext ==
    \/ NewCredentialDef
    \/ BlindCredentialSecrets
    \/ SignCredential
    \/ ProcessCredentialSignature
    \/ AddSubProofRequest
    \/ Finalize
    \/ Verify

(***************************************************************************)
(* The run with each party handed a value by the other side: the honest    *)
(* value or an altered one.                                                *)
(***************************************************************************)
\* nonces that the run may be handed in place of its own
OtherNonces == {9, 13, 700}

\* the key correctness proof and the same with one number changed
GivenKeyCorrectnessProofs(kcp) ==
    {kcp,
     [kcp EXCEPT !.c = (@ + 1) % HashPrime],
     [kcp EXCEPT !.xz_cap = (@ + 1) % GroupExponent],
     [kcp EXCEPT !.xr_cap["master_secret"] = (@ + 1) % GroupExponent]}

\* the signature with its correctness proof, and the same with one number
\* changed
GivenSignatures(signature) ==
    {signature,
     [signature EXCEPT !.cred_signature.a =
          (@ + 1) % cred_def.cred_pub_key.n],
     [signature EXCEPT !.cred_signature.v = @ + 1],
     [signature EXCEPT !.signature_correctness_proof.c = (@ + 1) % HashPrime],
     [signature EXCEPT !.signature_correctness_proof.se = @ + 1]}

\* the proof with the revealed value of an attribute increased by 1
WithRevealedIncreased(proof_, attr) ==
    [proof_ EXCEPT
         !.proofs[1].primary_proof.eq_proof.revealed_attrs[attr] = @ + 1]

\* the proof, and the same with one revealed value changed
GivenProofs(proof_) ==
    {proof_} \cup
        {WithRevealedIncreased(proof_, attr) :
             attr \in DOMAIN proof_.proofs[1].primary_proof
                                  .eq_proof.revealed_attrs}

BlindCredentialSecretsGiven(kcp) ==
    /\ step = "blind_credential_secrets"
    /\ kcp_in' = kcp
    /\ LET Returns(result) ==
               IF result.ok
               THEN /\ blinded' = result.value
                    /\ step' = "sign_credential"
                    /\ UNCHANGED failure
               ELSE Fails(result) /\ UNCHANGED blinded
       IN  Returns(Prover_blind_credential_secrets(
                       cred_def.cred_pub_key, kcp, cred_values, nonces[1],
                       rng))
    /\ rng' = RngAt(rng, BlindDraws(
                             Len(AttrsOfKind(cred_values, "Hidden"))))
    /\ UNCHANGED <<non_credential_schema, cred_values, nonces, cred_def,
                   signed, init_proofs, proof, verify_out, schema_vars,
                   request_vars, overflow_checks, predicate_vars, serde_vars,
                   non_schema_builder, nonce_vars, ffi_vars,
                   sign_nonce_in,
                   signature_in, shown_proof, verify_nonce_in>>

SignCredentialGiven(credential_nonce) ==
    /\ step = "sign_credential"
    /\ sign_nonce_in' = <<credential_nonce>>
    /\ LET Returns(result) ==
               IF result.ok
               THEN /\ signed' = result.value
                    /\ step' = "process_credential_signature"
                    /\ UNCHANGED failure
               ELSE Fails(result) /\ UNCHANGED signed
       IN  Returns(Issuer_sign_credential(
                       blinded.blinded_credential_secrets,
                       blinded.blinded_credential_secrets_correctness_proof,
                       credential_nonce, nonces[2], cred_values,
                       cred_def.cred_pub_key, cred_def.cred_priv_key, rng))
    /\ rng' = RngAt(rng, SignDraws)
    /\ UNCHANGED <<non_credential_schema, cred_values, nonces, cred_def,
                   blinded, init_proofs, proof, verify_out, schema_vars,
                   request_vars, overflow_checks, predicate_vars, serde_vars,
                   non_schema_builder, nonce_vars, ffi_vars,
                   kcp_in, signature_in,
                   shown_proof, verify_nonce_in>>

ProcessCredentialSignatureGiven(signature) ==
    /\ step = "process_credential_signature"
    /\ signature_in' = signature
    /\ LET Returns(result) ==
               IF result.ok
               THEN /\ signed' = [signature EXCEPT
                                      !.cred_signature = result.value]
                    /\ step' = "add_sub_proof_request"
                    /\ UNCHANGED failure
               ELSE Fails(result) /\ UNCHANGED signed
       IN  Returns(Prover_process_credential_signature(
                       signature.cred_signature, cred_values,
                       signature.signature_correctness_proof,
                       blinded.credential_secrets_blinding_factors,
                       cred_def.cred_pub_key, nonces[2]))
    /\ UNCHANGED <<rng, non_credential_schema, cred_values, nonces, cred_def,
                   blinded, init_proofs, proof, verify_out, schema_vars,
                   request_vars, overflow_checks, predicate_vars, serde_vars,
                   non_schema_builder, nonce_vars, ffi_vars,
                   kcp_in, sign_nonce_in,
                   shown_proof, verify_nonce_in>>

VerifyGiven(proof_, nonce) ==
    /\ step = "verify"
    /\ shown_proof' = proof_
    /\ verify_nonce_in' = <<nonce>>
    /\ verify_out' = ProofVerifier_verify(proof_, nonce, sub_proof_request,
                                          credential_schema,
                                          non_credential_schema,
                                          cred_def.cred_pub_key)
    /\ step' = "done"
    /\ UNCHANGED <<failure, rng, non_credential_schema, cred_values, nonces,
                   cred_def, blinded, signed, init_proofs, proof, schema_vars,
                   request_vars, overflow_checks, predicate_vars, serde_vars,
                   non_schema_builder, nonce_vars, ffi_vars,
                   kcp_in, sign_nonce_in,
                   signature_in>>

HandedNext ==
    \/ NewCredentialDef
    \/ /\ cred_def # None
       /\ \E kcp \in GivenKeyCorrectnessProofs(
                          cred_def.cred_key_correctness_proof) :
              BlindCredentialSecretsGiven(kcp)
    \/ \E nonce \in {nonces[1]} \cup OtherNonces : SignCredentialGiven(nonce)
    \/ /\ signed # None
       /\ \E signature \in GivenSignatures(signed) :
              ProcessCredentialSignatureGiven(signature)
    \/ AddSubProofRequest
    \/ Finalize
    \/ /\ proof # None
       /\ \E proof_ \in GivenProofs(proof),
             nonce \in {nonces[3]} \cup OtherNonces :
              VerifyGiven(proof_, nonce)

(***************************************************************************)
(* new_nonce (cl/mod.rs 28-30)                                             *)
(***************************************************************************)
LARGE_NONCE == 80

\* a big number is the sequence of its 16-bit limbs, least significant first
LimbBits == 16

\* the number of bits of the i-th limb of a number of size bits
BitsOfLimb(size, i) ==
    IF size - LimbBits * (i - 1) >= LimbBits THEN LimbBits
    ELSE IF size - LimbBits * (i - 1) > 0 THEN size - LimbBits * (i - 1)
    ELSE 0

\* helpers::bn_rand(size): size random bits
bn_rand(state, size) ==
    [i \in 1..((size + LimbBits - 1) \div LimbBits) |->
         RandomBits(state, i, BitsOfLimb(size, i))]

\* new_nonce drawing one bit more
new_nonce_of_one_more_bit(state) == Ok(bn_rand(state, LARGE_NONCE + 1))

new_nonce(state) == Ok(bn_rand(state, LARGE_NONCE))

MaxNonceCalls == 2

NewNonce ==
    /\ Len(nonce_out) < MaxNonceCalls
    /\ LET Returns(result) ==
               /\ nonce_out' = Append(nonce_out, result)
               /\ nonce_rng' = RngAt(nonce_rng, Len(result.value))
       IN  Returns(new_nonce(nonce_rng))
    /\ UNCHANGED <<schema_vars, request_vars, overflow_checks,
                   predicate_vars, serde_vars, protocol_vars,
                   non_schema_builder, handed_vars, ffi_vars>>

NonceNext == NewNonce

(***************************************************************************)
(* The C interface of the schema builder (ffi/cl/mod.rs 16-125)            *)
(***************************************************************************)
NullPtr == 0

\* the addresses the allocator hands out
MaxAddr == 3

Addrs == 1..MaxAddr

\* the address of the caller's variable that takes a returned pointer
OutSlot == MaxAddr + 1

MaxFfiCalls == 5

ErrorCodes ==
    {"Success", "CommonInvalidParam1", "CommonInvalidParam2",
     "CommonInvalidParam3", "CommonInvalidStructure"}

\* the *const c_char arguments: null, bytes that are not UTF-8, and texts
CStrings ==
    {[null |-> TRUE, utf8 |-> TRUE, text |-> ""],
     [null |-> FALSE, utf8 |-> FALSE, text |-> ""]}
      \cup {[null |-> FALSE, utf8 |-> TRUE, text |-> text] :
                text \in {"", "Sex", "name"}}

\* CTypesUtils::c_str_to_string
CTypesUtils_c_str_to_string(cstr) ==
    IF cstr.null THEN Ok(None)
    ELSE IF cstr.utf8 THEN Ok([some |-> cstr.text])
    ELSE Err("Utf8Error")

\* check_useful_c_str!: the String, or the early return
check_useful_c_str(x, e) ==
    LET converted == CTypesUtils_c_str_to_string(x)
    IN  IF ~converted.ok THEN Err(e)
        ELSE IF converted.value = None THEN Err(e)
        ELSE IF converted.value.some = "" THEN Err(e)
        ELSE Ok(converted.value.some)

IsBuilder(boxed) == boxed # None /\ boxed.type = "CredentialSchemaBuilder"

IsSchema(boxed) == boxed # None /\ boxed.type = "CredentialSchema"

\* the type of the value a pointer points to when the call is made
TypeAt(ptr) ==
    IF ptr \in Addrs /\ ffi_heap[ptr] # None THEN ffi_heap[ptr].type
    ELSE "none"

\* the call returns
FfiReturns(fn, handle, arg, res, out) ==
    /\ ffi_last' = [fn |-> fn, handle |-> handle, was |-> TypeAt(handle),
                    arg |-> arg, res |-> res, out |-> out]
    /\ ffi_count' = ffi_count + 1

\* Box::from_raw or a dereference of a pointer to freed memory or to a value
\* of another type: memory may be released again and any code returned
FfiUndefined(fn, handle, arg) ==
    /\ ffi_undefined' = TRUE
    /\ \E res \in ErrorCodes, released \in SUBSET Addrs :
           /\ ffi_heap' = [a \in Addrs |->
                               IF a \in released THEN None ELSE ffi_heap[a]]
           /\ FfiReturns(fn, handle, arg, res, NullPtr)

\* Box::into_raw(Box::new(value)): at any free address
BoxIntoRaw(heap, fn, handle, arg, value) ==
    \E a \in Addrs :
        /\ heap[a] = None
        /\ ffi_heap' = [heap EXCEPT ![a] = value]
        /\ FfiReturns(fn, handle, arg, "Success", a)

cl_credential_schema_builder_new(credential_schema_builder_p) ==
    /\ ~ffi_undefined /\ ffi_count < MaxFfiCalls
    /\ IF credential_schema_builder_p = NullPtr
       THEN /\ FfiReturns("cl_credential_schema_builder_new", NullPtr,
                          credential_schema_builder_p,
                          "CommonInvalidParam1", NullPtr)
            /\ UNCHANGED ffi_heap
       ELSE BoxIntoRaw(ffi_heap, "cl_credential_schema_builder_new", NullPtr,
                       credential_schema_builder_p,
                       [type |-> "CredentialSchemaBuilder",
                        attrs |-> BTreeSetNew])
    /\ UNCHANGED <<ffi_undefined, schema_vars, request_vars, overflow_checks,
                   predicate_vars, serde_vars, protocol_vars,
                   non_schema_builder, handed_vars, nonce_vars>>

\* add_attr that takes the builder out of its box
cl_credential_schema_builder_add_attr_taking_box(credential_schema_builder, attr) ==
    /\ ~ffi_undefined /\ ffi_count < MaxFfiCalls
    /\ credential_schema_builder # NullPtr
    /\ ffi_heap' = [a \in Addrs |->
                        IF a = credential_schema_builder THEN None
                        ELSE ffi_heap[a]]
    /\ FfiReturns("cl_credential_schema_builder_add_attr",
                  credential_schema_builder, attr, "Success", NullPtr)
    /\ UNCHANGED <<ffi_undefined, schema_vars, request_vars, overflow_checks,
                   predicate_vars, serde_vars, protocol_vars,
                   non_schema_builder, handed_vars, nonce_vars>>

cl_credential_schema_builder_add_attr(credential_schema_builder, attr) ==
    /\ ~ffi_undefined /\ ffi_count < MaxFfiCalls
    /\ LET fn == "cl_credential_schema_builder_add_attr"
           handle == credential_schema_builder
           checked == check_useful_c_str(attr, "CommonInvalidParam2")
       IN  IF handle = NullPtr
           THEN /\ FfiReturns(fn, handle, attr, "CommonInvalidParam1",
                              NullPtr)
                /\ UNCHANGED <<ffi_heap, ffi_undefined>>
           ELSE IF ~IsBuilder(ffi_heap[handle])
           THEN FfiUndefined(fn, handle, attr)
           ELSE IF ~checked.ok
           THEN /\ FfiReturns(fn, handle, attr, checked.err, NullPtr)
                /\ UNCHANGED <<ffi_heap, ffi_undefined>>
           ELSE /\ ffi_heap' =
                       [ffi_heap EXCEPT ![handle].attrs =
                            BTreeSetInsert(@, checked.value)]
                /\ FfiReturns(fn, handle, attr, "Success", NullPtr)
                /\ UNCHANGED ffi_undefined
    /\ UNCHANGED <<schema_vars, request_vars, overflow_checks,
                   predicate_vars, serde_vars, protocol_vars,
                   non_schema_builder, handed_vars, nonce_vars>>

cl_credential_schema_builder_finalize(credential_schema_builder, credential_schema_p) ==
    /\ ~ffi_undefined /\ ffi_count < MaxFfiCalls
    /\ LET fn == "cl_credential_schema_builder_finalize"
           handle == credential_schema_builder
       IN  IF handle = NullPtr
           THEN /\ FfiReturns(fn, handle, credential_schema_p,
                              "CommonInvalidParam1", NullPtr)
                /\ UNCHANGED <<ffi_heap, ffi_undefined>>
           ELSE IF credential_schema_p = NullPtr
           THEN /\ FfiReturns(fn, handle, credential_schema_p,
                              "CommonInvalidParam2", NullPtr)
                /\ UNCHANGED <<ffi_heap, ffi_undefined>>
           ELSE IF ~IsBuilder(ffi_heap[handle])
           THEN FfiUndefined(fn, handle, credential_schema_p)
           ELSE /\ BoxIntoRaw([ffi_heap EXCEPT ![handle] = None],
                              fn, handle, credential_schema_p,
                              [type |-> "CredentialSchema",
                               attrs |-> ffi_heap[handle].attrs])
                /\ UNCHANGED ffi_undefined
    /\ UNCHANGED <<schema_vars, request_vars, overflow_checks,
                   predicate_vars, serde_vars, protocol_vars,
                   non_schema_builder, handed_vars, nonce_vars>>

cl_credential_schema_free(credential_schema_ptr) ==
    /\ ~ffi_undefined /\ ffi_count < MaxFfiCalls
    /\ LET fn == "cl_credential_schema_free"
           handle == credential_schema_ptr
       IN  IF handle = NullPtr
           THEN /\ FfiReturns(fn, handle, NullPtr, "CommonInvalidParam1",
                              NullPtr)
                /\ UNCHANGED <<ffi_heap, ffi_undefined>>
           ELSE IF ~IsSchema(ffi_heap[handle])
           THEN FfiUndefined(fn, handle, NullPtr)
           ELSE /\ ffi_heap' = [ffi_heap EXCEPT ![handle] = None]
                /\ FfiReturns(fn, handle, NullPtr, "Success", NullPtr)
                /\ UNCHANGED ffi_undefined
    /\ UNCHANGED <<schema_vars, request_vars, overflow_checks,
                   predicate_vars, serde_vars, protocol_vars,
                   non_schema_builder, handed_vars, nonce_vars>>

(***************************************************************************)
(* The C interface of the non credential schema builder                    *)
(* (ffi/cl/mod.rs 127-235) and the helpers of the module that call it      *)
(* (ffi/cl/mod.rs 974-1075)                                                *)
(***************************************************************************)
\* the variables no function of the C interface touches
FfiFrame ==
    UNCHANGED <<schema_vars, request_vars, overflow_checks, predicate_vars,
                serde_vars, protocol_vars, non_schema_builder, handed_vars,
                nonce_vars>>

\* the early return of a check_useful_* macro
FfiRefuses(fn, handle, arg, e) ==
    /\ FfiReturns(fn, handle, arg, e, NullPtr)
    /\ UNCHANGED <<ffi_heap, ffi_undefined>>

IsA(boxed, type) == boxed # None /\ boxed.type = type

cl_non_credential_schema_builder_new(non_credential_schema_builder_p) ==
    /\ ~ffi_undefined /\ ffi_count < MaxFfiCalls
    /\ LET fn == "cl_non_credential_schema_builder_new"
       IN  IF non_credential_schema_builder_p = NullPtr
           THEN FfiRefuses(fn, NullPtr, non_credential_schema_builder_p,
                           "CommonInvalidParam1")
           ELSE /\ BoxIntoRaw(ffi_heap, fn, NullPtr,
                              non_credential_schema_builder_p,
                              [type |-> "NonCredentialSchemaBuilder",
                               attrs |-> BTreeSetNew])
                /\ UNCHANGED ffi_undefined
    /\ FfiFrame

cl_non_credential_schema_builder_add_attr(non_credential_schema_builder, attr) ==
    /\ ~ffi_undefined /\ ffi_count < MaxFfiCalls
    /\ LET fn == "cl_non_credential_schema_builder_add_attr"
           handle == non_credential_schema_builder
           checked == check_useful_c_str(attr, "CommonInvalidParam2")
       IN  IF handle = NullPtr
           THEN FfiRefuses(fn, handle, attr, "CommonInvalidParam1")
           ELSE IF ~IsA(ffi_heap[handle], "NonCredentialSchemaBuilder")
           THEN FfiUndefined(fn, handle, attr)
           ELSE IF ~checked.ok
           THEN FfiRefuses(fn, handle, attr, checked.err)
           ELSE /\ ffi_heap' =
                       [ffi_heap EXCEPT ![handle].attrs =
                            BTreeSetInsert(@, checked.value)]
                /\ FfiReturns(fn, handle, attr, "Success", NullPtr)
                /\ UNCHANGED ffi_undefined
    /\ FfiFrame

cl_non_credential_schema_builder_finalize(non_credential_schema_builder, non_credential_schema_p) ==
    /\ ~ffi_undefined /\ ffi_count < MaxFfiCalls
    /\ LET fn == "cl_non_credential_schema_builder_finalize"
           handle == non_credential_schema_builder
       IN  IF handle = NullPtr
           THEN FfiRefuses(fn, handle, non_credential_schema_p,
                           "CommonInvalidParam1")
           ELSE IF non_credential_schema_p = NullPtr
           THEN FfiRefuses(fn, handle, non_credential_schema_p,
                           "CommonInvalidParam2")
           ELSE IF ~IsA(ffi_heap[handle], "NonCredentialSchemaBuilder")
           THEN FfiUndefined(fn, handle, non_credential_schema_p)
           ELSE /\ BoxIntoRaw([ffi_heap EXCEPT ![handle] = None],
                              fn, handle, non_credential_schema_p,
                              [type |-> "NonCredentialSchema",
                               attrs |-> ffi_heap[handle].attrs])
                /\ UNCHANGED ffi_undefined
    /\ FfiFrame

cl_non_credential_schema_free(non_credential_schema_ptr) ==
    /\ ~ffi_undefined /\ ffi_count < MaxFfiCalls
    /\ LET fn == "cl_non_credential_schema_free"
           handle == non_credential_schema_ptr
       IN  IF handle = NullPtr
           THEN FfiRefuses(fn, handle, NullPtr, "CommonInvalidParam1")
           ELSE IF ~IsA(ffi_heap[handle], "NonCredentialSchema")
           THEN FfiUndefined(fn, handle, NullPtr)
           ELSE /\ ffi_heap' = [ffi_heap EXCEPT ![handle] = None]
                /\ FfiReturns(fn, handle, NullPtr, "Success", NullPtr)
                /\ UNCHANGED ffi_undefined
    /\ FfiFrame

\* the handles the tests of the module hold: what a helper returned and no
\* helper has consumed
HeldHandles(type) == {a \in Addrs : IsA(ffi_heap[a], type)}

\* mocks::_non_credential_schema_builder
Mocks_non_credential_schema_builder ==
    cl_non_credential_schema_builder_new(OutSlot)

\* the add_attr calls of the tests: sex, name, age, master_secret
MocksAttrs ==
    {[null |-> FALSE, utf8 |-> TRUE, text |-> text] :
         text \in {"Sex", "name", "age", "master_secret"}}

\* mocks::_free_non_credential_schema_builder up to its assert_eq!: the
\* finalize of the credential schema builder is the one it calls
Mocks_free_non_credential_schema_builder(non_credential_schema_builder) ==
    cl_credential_schema_builder_finalize(non_credential_schema_builder,
                                          OutSlot)

\* mocks::_free_non_credential_schema
Mocks_free_non_credential_schema(non_credential_schema_ptr) ==
    cl_non_credential_schema_free(non_credential_schema_ptr)

\* the calls the module itself makes on non credential schema builders
MocksNext ==
    \/ Mocks_non_credential_schema_builder
    \/ \E h \in HeldHandles("NonCredentialSchemaBuilder"),
          attr \in MocksAttrs :
           cl_non_credential_schema_builder_add_attr(h, attr)
    \/ \E h \in HeldHandles("NonCredentialSchemaBuilder") :
           cl_non_credential_schema_builder_finalize(h, OutSlot)
    \/ \E h \in HeldHandles("NonCredentialSchemaBuilder") :
           Mocks_free_non_credential_schema_builder(h)
    \/ \E h \in HeldHandles("NonCredentialSchema") \cup
                    HeldHandles("CredentialSchema") :
           Mocks_free_non_credential_schema(h)

FfiNext ==
    \/ \E credential_schema_builder_p \in {NullPtr, OutSlot} :
           cl_credential_schema_builder_new(credential_schema_builder_p)
    \/ \E credential_schema_builder \in {NullPtr} \cup Addrs,
          attr \in CStrings :
           cl_credential_schema_builder_add_attr(credential_schema_builder,
                                                 attr)
    \/ \E credential_schema_builder \in {NullPtr} \cup Addrs,
          credential_schema_p \in {NullPtr, OutSlot} :
           cl_credential_schema_builder_finalize(credential_schema_builder,
                                                 credential_schema_p)
    \/ \E credential_schema_ptr \in {NullPtr} \cup Addrs :
           cl_credential_schema_free(credential_schema_ptr)

(***************************************************************************)
(* The C interface of the sub proof request builder, of the credential     *)
(* values builder and of the nonce (ffi/cl/mod.rs 237-667)                 *)
(***************************************************************************)
\* IndyCryptoError::to_error_code
to_error_code(err) ==
    CASE err = "InvalidStructure" -> "CommonInvalidStructure"

\* the characters of the texts that are given as numbers and as JSON
Chars(text) ==
    CASE text = "5" -> <<"5">>
      [] text = "7" -> <<"7">>
      [] text = "3" -> <<"3">>
      [] text = "x" -> <<"x">>
      [] text = "\"5\"" -> <<"\"", "5", "\"">>

\* SubProofRequestBuilder::add_predicate on the builder behind a handle:
\* the builder it leaves, or the error
add_predicate(self, attr_name, p_type, value) ==
    LET parsed == ParsePredicateType(p_type)
    IN  IF ~parsed.ok THEN parsed
        ELSE Ok([self EXCEPT !.predicates =
                     BTreeSetInsertPredicate(@, [attr_name |-> attr_name,
                                                 p_type |-> parsed.value,
                                                 value |-> value])])

BTreeMapNew == [k \in {} |-> None]

\* BTreeMap<String, CredentialValue>::insert: the entry of the key is
\* replaced
BTreeMapInsert(map, key, v) ==
    [k \in DOMAIN map \cup {key} |-> IF k = key THEN v ELSE map[k]]

\* CredentialValuesBuilder::add_dec_known
add_dec_known(self, attr, value) ==
    LET number == BigNumber_from_dec(Chars(value))
    IN  IF ~number.ok THEN number
        ELSE Ok([self EXCEPT !.attrs_values =
                     BTreeMapInsert(@, attr, [kind |-> "Known",
                                              value |-> number.value])])

\* CredentialValuesBuilder::add_dec_hidden
add_dec_hidden(self, attr, value) ==
    LET number == BigNumber_from_dec(Chars(value))
    IN  IF ~number.ok THEN number
        ELSE Ok([self EXCEPT !.attrs_values =
                     BTreeMapInsert(@, attr, [kind |-> "Hidden",
                                              value |-> number.value])])

\* add_dec_commitment that keeps the flavour an attribute already has
add_dec_commitment_keeping_flavour(self, attr, value, blinding_factor) ==
    LET number == BigNumber_from_dec(Chars(value))
        blinding == BigNumber_from_dec(Chars(blinding_factor))
    IN  IF ~number.ok THEN number
        ELSE IF ~blinding.ok THEN blinding
        ELSE IF attr \in DOMAIN self.attrs_values
        THEN Ok([self EXCEPT !.attrs_values[attr].value = number.value])
        ELSE Ok([self EXCEPT !.attrs_values =
                     BTreeMapInsert(@, attr,
                                    [kind |-> "Commitment",
                                     value |-> number.value,
                                     blinding_factor |-> blinding.value])])

\* CredentialValuesBuilder::add_dec_commitment
add_dec_commitment(self, attr, value, blinding_factor) ==
    LET number == BigNumber_from_dec(Chars(value))
        blinding == BigNumber_from_dec(Chars(blinding_factor))
    IN  IF ~number.ok THEN number
        ELSE IF ~blinding.ok THEN blinding
        ELSE Ok([self EXCEPT !.attrs_values =
                     BTreeMapInsert(@, attr,
                                    [kind |-> "Commitment",
                                     value |-> number.value,
                                     blinding_factor |-> blinding.value])])

\* CredentialValue::is_known, is_hidden, is_commitment
is_known(self) == self.kind = "Known"

is_hidden(self) == self.kind = "Hidden"

is_commitment(self) == self.kind = "Commitment"

\* serde_json::from_str::<Nonce>: a JSON string that holds a decimal
from_str_Nonce(text) ==
    LET chars == Chars(text)
        quoted == /\ Len(chars) >= 2
                  /\ chars[1] = "\""
                  /\ chars[Len(chars)] = "\""
    IN  IF ~quoted THEN Err("serde")
        ELSE BigNumber_from_dec(SubSeq(chars, 2, Len(chars) - 1))

\* a *_builder_new function: the builder is boxed
BuilderNew(fn, builder_p, builder) ==
    /\ ~ffi_undefined /\ ffi_count < MaxFfiCalls
    /\ IF builder_p = NullPtr
       THEN FfiRefuses(fn, NullPtr, builder_p, "CommonInvalidParam1")
       ELSE /\ BoxIntoRaw(ffi_heap, fn, NullPtr, builder_p, builder)
            /\ UNCHANGED ffi_undefined
    /\ FfiFrame

\* a *_builder_finalize function: both pointers are checked, the builder is
\* taken out of its box and what it built is boxed
BuilderFinalize(fn, handle, out_p, type, built) ==
    /\ ~ffi_undefined /\ ffi_count < MaxFfiCalls
    /\ IF handle = NullPtr
       THEN FfiRefuses(fn, handle, out_p, "CommonInvalidParam1")
       ELSE IF out_p = NullPtr
       THEN FfiRefuses(fn, handle, out_p, "CommonInvalidParam2")
       ELSE IF ~IsA(ffi_heap[handle], type)
       THEN FfiUndefined(fn, handle, out_p)
       ELSE /\ BoxIntoRaw([ffi_heap EXCEPT ![handle] = None], fn, handle,
                          out_p, [ffi_heap[handle] EXCEPT !.type = built])
            /\ UNCHANGED ffi_undefined
    /\ FfiFrame

\* a finalize that takes the builder out of its box before it looks at the
\* pointer for the result
BuilderFinalizeUnboxingFirst(fn, handle, out_p, type, built) ==
    /\ ~ffi_undefined /\ ffi_count < MaxFfiCalls
    /\ IF handle = NullPtr
       THEN FfiRefuses(fn, handle, out_p, "CommonInvalidParam1")
       ELSE IF ~IsA(ffi_heap[handle], type)
       THEN FfiUndefined(fn, handle, out_p)
       ELSE IF out_p = NullPtr
       THEN /\ ffi_heap' = [ffi_heap EXCEPT ![handle] = None]
            /\ FfiReturns(fn, handle, out_p, "CommonInvalidParam2", NullPtr)
            /\ UNCHANGED ffi_undefined
       ELSE /\ BoxIntoRaw([ffi_heap EXCEPT ![handle] = None], fn, handle,
                          out_p, [ffi_heap[handle] EXCEPT !.type = built])
            /\ UNCHANGED ffi_undefined
    /\ FfiFrame

\* the call of the builder's method and the match on its result
BuilderCall(fn, handle, arg, result) ==
    IF result.ok
    THEN /\ ffi_heap' = [ffi_heap EXCEPT ![handle] = result.value]
         /\ FfiReturns(fn, handle, arg, "Success", NullPtr)
         /\ UNCHANGED ffi_undefined
    ELSE FfiRefuses(fn, handle, arg, to_error_code(result.err))

cl_sub_proof_request_builder_new(sub_proof_request_builder_p) ==
    BuilderNew("cl_sub_proof_request_builder_new",
               sub_proof_request_builder_p,
               [type |-> "SubProofRequestBuilder",
                revealed_attrs |-> BTreeSetNew, predicates |-> BTreeSetNew])

\* add_predicate that looks at p_type before it looks at attr_name
cl_sub_proof_request_builder_add_predicate_p_type_first(sub_proof_request_builder, attr_name, p_type, value) ==
    /\ ~ffi_undefined /\ ffi_count < MaxFfiCalls
    /\ LET fn == "cl_sub_proof_request_builder_add_predicate"
           handle == sub_proof_request_builder
           arg == <<attr_name, p_type, value>>
           name == check_useful_c_str(attr_name, "CommonInvalidParam2")
           type == check_useful_c_str(p_type, "CommonInvalidParam3")
       IN  IF handle = NullPtr
           THEN FfiRefuses(fn, handle, arg, "CommonInvalidParam1")
           ELSE IF ~IsA(ffi_heap[handle], "SubProofRequestBuilder")
           THEN FfiUndefined(fn, handle, arg)
           ELSE IF ~type.ok THEN FfiRefuses(fn, handle, arg, type.err)
           ELSE IF ~name.ok THEN FfiRefuses(fn, handle, arg, name.err)
           ELSE BuilderCall(fn, handle, arg,
                            add_predicate(ffi_heap[handle], name.value,
                                          type.value, value))
    /\ FfiFrame

cl_sub_proof_request_builder_add_predicate(sub_proof_request_builder, attr_name, p_type, value) ==
    /\ ~ffi_undefined /\ ffi_count < MaxFfiCalls
    /\ LET fn == "cl_sub_proof_request_builder_add_predicate"
           handle == sub_proof_request_builder
           arg == <<attr_name, p_type, value>>
           name == check_useful_c_str(attr_name, "CommonInvalidParam2")
           type == check_useful_c_str(p_type, "CommonInvalidParam3")
       IN  IF handle = NullPtr
           THEN FfiRefuses(fn, handle, arg, "CommonInvalidParam1")
           ELSE IF ~IsA(ffi_heap[handle], "SubProofRequestBuilder")
           THEN FfiUndefined(fn, handle, arg)
           ELSE IF ~name.ok THEN FfiRefuses(fn, handle, arg, name.err)
           ELSE IF ~type.ok THEN FfiRefuses(fn, handle, arg, type.err)
           ELSE BuilderCall(fn, handle, arg,
                            add_predicate(ffi_heap[handle], name.value,
                                          type.value, value))
    /\ FfiFrame

cl_sub_proof_request_builder_finalize_unboxing_first(sub_proof_request_builder, sub_proof_request_p) ==
    BuilderFinalizeUnboxingFirst("cl_sub_proof_request_builder_finalize",
                                 sub_proof_request_builder,
                                 sub_proof_request_p,
                                 "SubProofRequestBuilder", "SubProofRequest")

cl_sub_proof_request_builder_finalize(sub_proof_request_builder, sub_proof_request_p) ==
    BuilderFinalize("cl_sub_proof_request_builder_finalize",
                    sub_proof_request_builder, sub_proof_request_p,
                    "SubProofRequestBuilder", "SubProofRequest")

cl_credential_values_builder_new(credential_values_builder_p) ==
    BuilderNew("cl_credential_values_builder_new",
               credential_values_builder_p,
               [type |-> "CredentialValuesBuilder",
                attrs_values |-> BTreeMapNew])

\* the three add_dec functions up to the call of the builder's method
ValuesBuilderAdd(fn, handle, attr, dec_values, Method(_, _, _)) ==
    /\ ~ffi_undefined /\ ffi_count < MaxFfiCalls
    /\ LET arg == <<attr>> \o dec_values
           bad == {i \in DOMAIN arg :
                       ~check_useful_c_str(arg[i], "CommonInvalidParam2").ok}
           first == CHOOSE i \in bad : \A j \in bad : i <= j
           codes == <<"CommonInvalidParam2", "CommonInvalidParam3",
                      "CommonInvalidParam4">>
       IN  IF handle = NullPtr
           THEN FfiRefuses(fn, handle, arg, "CommonInvalidParam1")
           ELSE IF ~IsA(ffi_heap[handle], "CredentialValuesBuilder")
           THEN FfiUndefined(fn, handle, arg)
           ELSE IF bad # {} THEN FfiRefuses(fn, handle, arg, codes[first])
           ELSE BuilderCall(fn, handle, arg,
                            Method(ffi_heap[handle], attr.text,
                                   [i \in DOMAIN dec_values |->
                                        dec_values[i].text]))
    /\ FfiFrame

cl_credential_values_builder_add_dec_known(credential_values_builder, attr, dec_value) ==
    ValuesBuilderAdd("cl_credential_values_builder_add_dec_known",
                     credential_values_builder, attr, <<dec_value>>,
                     LAMBDA self, name, decs :
                         add_dec_known(self, name, decs[1]))

cl_credential_values_builder_add_dec_hidden(credential_values_builder, attr, dec_value) ==
    ValuesBuilderAdd("cl_credential_values_builder_add_dec_hidden",
                     credential_values_builder, attr, <<dec_value>>,
                     LAMBDA self, name, decs :
                         add_dec_hidden(self, name, decs[1]))

cl_credential_values_builder_add_dec_commitment(credential_values_builder, attr, dec_value, dec_blinding_factor) ==
    ValuesBuilderAdd("cl_credential_values_builder_add_dec_commitment",
                     credential_values_builder, attr,
                     <<dec_value, dec_blinding_factor>>,
                     LAMBDA self, name, decs :
                         add_dec_commitment(self, name, decs[1], decs[2]))

cl_credential_values_builder_finalize(credential_values_builder, credential_values_p) ==
    BuilderFinalize("cl_credential_values_builder_finalize",
                    credential_values_builder, credential_values_p,
                    "CredentialValuesBuilder", "CredentialValues")

cl_nonce_from_json(nonce_json, nonce_p) ==
    /\ ~ffi_undefined /\ ffi_count < MaxFfiCalls
    /\ LET fn == "cl_nonce_from_json"
           arg == <<nonce_json, nonce_p>>
           json == check_useful_c_str(nonce_json, "CommonInvalidParam1")
       IN  IF ~json.ok THEN FfiRefuses(fn, NullPtr, arg, json.err)
           ELSE IF nonce_p = NullPtr
           THEN FfiRefuses(fn, NullPtr, arg, "CommonInvalidParam2")
           ELSE IF ~from_str_Nonce(json.value).ok
           THEN FfiRefuses(fn, NullPtr, arg, "CommonInvalidStructure")
           ELSE /\ BoxIntoRaw(ffi_heap, fn, NullPtr, arg,
                              [type |-> "Nonce",
                               value |-> from_str_Nonce(json.value).value])
                /\ UNCHANGED ffi_undefined
    /\ FfiFrame

\* the calls of a caller that are followed
MaxArgsCalls == 4

ArgsPTypes ==
    {[null |-> TRUE, utf8 |-> TRUE, text |-> ""],
     [null |-> FALSE, utf8 |-> TRUE, text |-> ""],
     [null |-> FALSE, utf8 |-> TRUE, text |-> "GE"],
     [null |-> FALSE, utf8 |-> TRUE, text |-> "EQ"]}

ArgsJsons ==
    {[null |-> TRUE, utf8 |-> TRUE, text |-> ""],
     [null |-> FALSE, utf8 |-> FALSE, text |-> ""],
     [null |-> FALSE, utf8 |-> TRUE, text |-> ""],
     [null |-> FALSE, utf8 |-> TRUE, text |-> "\"5\""],
     [null |-> FALSE, utf8 |-> TRUE, text |-> "x"]}

\* the handles a caller gives to a function: null, or a handle it got for
\* a value of the function's type and has not given back
Handles(type) == {NullPtr} \cup HeldHandles(type)

\* any such caller of the C interface: null and proper pointers for the
\* result, null, broken, empty and proper strings
ArgsNext ==
    /\ ffi_count < MaxArgsCalls
    /\ \/ \E credential_schema_builder_p \in {NullPtr, OutSlot} :
              cl_credential_schema_builder_new(credential_schema_builder_p)
       \/ \E credential_schema_builder \in Handles("CredentialSchemaBuilder"),
             attr \in CStrings :
              cl_credential_schema_builder_add_attr(
                  credential_schema_builder, attr)
       \/ \E credential_schema_builder \in Handles("CredentialSchemaBuilder"),
             credential_schema_p \in {NullPtr, OutSlot} :
              cl_credential_schema_builder_finalize(
                  credential_schema_builder, credential_schema_p)
       \/ \E sub_proof_request_builder_p \in {NullPtr, OutSlot} :
              cl_sub_proof_request_builder_new(sub_proof_request_builder_p)
       \/ \E sub_proof_request_builder \in
                 Handles("SubProofRequestBuilder"),
             attr_name \in CStrings, p_type \in ArgsPTypes,
             value \in RequestValues :
              cl_sub_proof_request_builder_add_predicate(
                  sub_proof_request_builder, attr_name, p_type, value)
       \/ \E sub_proof_request_builder \in
                 Handles("SubProofRequestBuilder"),
             sub_proof_request_p \in {NullPtr, OutSlot} :
              cl_sub_proof_request_builder_finalize(
                  sub_proof_request_builder, sub_proof_request_p)
       \/ \E credential_values_builder_p \in {NullPtr, OutSlot} :
              cl_credential_values_builder_new(credential_values_builder_p)
       \/ \E credential_values_builder \in
                 Handles("CredentialValuesBuilder"),
             credential_values_p \in {NullPtr, OutSlot} :
              cl_credential_values_builder_finalize(
                  credential_values_builder, credential_values_p)
       \/ \E nonce_json \in ArgsJsons, nonce_p \in {NullPtr, OutSlot} :
              cl_nonce_from_json(nonce_json, nonce_p)

\* the names, the numbers and the blinding factors given to the add_dec
\* functions: proper ones, an empty name and texts that are no decimals
ValuesAttrs ==
    {[null |-> FALSE, utf8 |-> TRUE, text |-> text] :
         text \in {"age", "name", ""}}

ValuesDecs ==
    {[null |-> FALSE, utf8 |-> TRUE, text |-> text] :
         text \in {"5", "7", "x"}}

ValuesBlindings ==
    {[null |-> FALSE, utf8 |-> TRUE, text |-> text] : text \in {"3", "x"}}

\* a caller that builds credential values, one builder at a time
ValuesNext ==
    \/ /\ HeldHandles("CredentialValuesBuilder") = {}
       /\ cl_credential_values_builder_new(OutSlot)
    \/ \E h \in HeldHandles("CredentialValuesBuilder"),
          attr \in ValuesAttrs, dec_value \in ValuesDecs :
           cl_credential_values_builder_add_dec_known(h, attr, dec_value)
    \/ \E h \in HeldHandles("CredentialValuesBuilder"),
          attr \in ValuesAttrs, dec_value \in ValuesDecs :
           cl_credential_values_builder_add_dec_hidden(h, attr, dec_value)
    \/ \E h \in HeldHandles("CredentialValuesBuilder"),
          attr \in ValuesAttrs, dec_value \in ValuesDecs,
          dec_blinding_factor \in ValuesBlindings :
           cl_credential_values_builder_add_dec_commitment(
               h, attr, dec_value, dec_blinding_factor)
    \/ \E h \in HeldHandles("CredentialValuesBuilder") :
           cl_credential_values_builder_finalize(h, OutSlot)

BuildInit == overflow_checks \in BOOLEAN

\* every party is handed the honest values
HandedAtRest ==
    /\ kcp_in = None
    /\ sign_nonce_in = <<>>
    /\ signature_in = None
    /\ shown_proof = None
    /\ verify_nonce_in = <<>>

\* no call of new_nonce
NonceAtRest ==
    /\ nonce_rng = 0
    /\ nonce_out = <<>>

\* the seeds of the random number generator behind new_nonce
NonceSeeds == 1..128

NonceInit ==
    /\ nonce_rng \in NonceSeeds
    /\ nonce_out = <<>>

\* nothing is allocated and nothing has been called
FfiInit ==
    /\ ffi_heap = [a \in Addrs |-> None]
    /\ ffi_last = None
    /\ ffi_count = 0
    /\ ffi_undefined = FALSE

ExtraAtRest ==
    /\ non_schema_builder = None
    /\ HandedAtRest
    /\ NonceAtRest
    /\ FfiInit

Init ==
    /\ BuildInit /\ SchemaInit /\ RequestInit /\ PredicateAtRest
    /\ SerdeAtRest /\ ProtocolAtRest /\ ExtraAtRest

Next == SchemaNext

Spec == Init /\ [][Next]_vars

SpecRequest == Init /\ [][RequestNext]_vars

InitPredicate ==
    /\ BuildInit /\ SchemaInit /\ RequestInit /\ PredicateInit
    /\ SerdeAtRest /\ ProtocolAtRest /\ ExtraAtRest

SpecPredicate == InitPredicate /\ [][PredicateNext]_vars

InitSerde ==
    /\ BuildInit /\ SchemaInit /\ RequestInit /\ PredicateAtRest
    /\ SerdeInit /\ ProtocolAtRest /\ ExtraAtRest

SpecSerde == InitSerde /\ [][SerdeNext]_vars

\* the schemas are built by their builders, then new_credential_def
KeygenInit ==
    /\ step = "new_credential_def"
    /\ rng \in Seeds
    /\ failure = None
    /\ non_credential_schema = None
    /\ cred_values = None
    /\ nonces = <<>>
    /\ cred_def = None
    /\ blinded = None
    /\ signed = None
    /\ init_proofs = None
    /\ proof = None
    /\ verify_out = None

InitKeygen ==
    /\ BuildInit /\ SchemaInit /\ RequestInit /\ PredicateAtRest
    /\ SerdeAtRest /\ KeygenInit /\ ExtraAtRest

KeygenNext ==
    \/ SchemaNext
    \/ NonSchemaNext
    \/ NewCredentialDef

SpecKeygen == InitKeygen /\ [][KeygenNext]_vars

InitProtocol ==
    /\ BuildInit /\ PredicateAtRest /\ SerdeAtRest /\ ProtocolInit
    /\ ExtraAtRest

SpecProtocol == InitProtocol /\ [][ProtocolNext]_vars

SpecHanded == InitProtocol /\ [][HandedNext]_vars

InitNonce ==
    /\ BuildInit /\ SchemaInit /\ RequestInit /\ PredicateAtRest
    /\ SerdeAtRest /\ ProtocolAtRest /\ non_schema_builder = None
    /\ HandedAtRest /\ NonceInit /\ FfiInit

SpecNonce == InitNonce /\ [][NonceNext]_vars

SpecFfi == Init /\ [][FfiNext]_vars

SpecMocks == Init /\ [][MocksNext]_vars

SpecArgs == Init /\ [][ArgsNext]_vars

SpecValues == Init /\ [][ValuesNext]_vars

(***************************************************************************)
(* Claims                                                                  *)
(***************************************************************************)

\* C10: a finalized CredentialSchema holds exactly the set of names given to
\* add_attr on its builder, each once, in ascending byte-lexicographic
\* order; so it depends on that set alone, not on the order or the number of
\* the calls.
C10_SchemaIsSortedSetOfCalls ==
    credential_schema # None /\ schema_builder = None =>
        LET attrs == credential_schema.attrs
        IN  /\ Elems(attrs) = Elems(schema_calls)
            /\ \A i, j \in DOMAIN attrs :
                   i < j => BytesLess(Utf8(attrs[i]), Utf8(attrs[j]))

C10_Witness ==
    /\ schema_builder = None
    /\ schema_calls = <<"name", "age", "name", "Sex">>
    /\ credential_schema # None
    /\ credential_schema.attrs = <<"Sex", "age", "name">>

(***************************************************************************)
(* The table of section 4.8, computed over the integers.  TableDelta is    *)
(* None where the value of the table is outside the 32-bit range; no       *)
(* intermediate value of the definition leaves that range.                 *)
(***************************************************************************)
\* a - b - 1 over the integers, or None
MinusOne(a, b) ==
    IF a > I32Min
    THEN IF SubOverflows(a - 1, b) THEN None ELSE [value |-> (a - 1) - b]
    ELSE IF b < 0 THEN [value |-> a - (b + 1)] ELSE None

TableDelta(p_type, k, m) ==
    CASE p_type = "GE" -> IF SubOverflows(m, k) THEN None ELSE [value |-> m - k]
      [] p_type = "GT" -> MinusOne(m, k)
      [] p_type = "LE" -> IF SubOverflows(k, m) THEN None ELSE [value |-> k - m]
      [] p_type = "LT" -> MinusOne(k, m)

TableDeltaPrime(p_type, k) ==
    CASE p_type = "GE" -> [value |-> k]
      [] p_type = "GT" -> IF k = I32Max THEN None ELSE [value |-> k + 1]
      [] p_type = "LE" -> [value |-> k]
      [] p_type = "LT" -> IF k = I32Min THEN None ELSE [value |-> k - 1]

\* C4: wherever the delta of the table (m - k for GE, m - k - 1 for GT,
\* k - m for LE, k - m - 1 for LT) is representable in 32 bits, get_delta
\* returns it.
C4_GetDeltaIsTableDelta ==
    LET table == TableDelta(predicate_in.p_type, predicate_in.value,
                            attr_value_in)
    IN  delta_out # None /\ table # None
            => delta_out = Returned(table.value)

\* C4: the call that departs from the table: GT with k = i32::MIN on m = 0
\* in a build that checks overflow; the table gives 2147483647.
C4_FailingInput ==
    /\ overflow_checks
    /\ predicate_in # None
    /\ predicate_in.p_type = "GT"
    /\ predicate_in.value = I32Min
    /\ attr_value_in = 0
    /\ delta_out = Panicked

\* C5: wherever the delta prime of the table (k for GE and LE, k + 1 for GT,
\* k - 1 for LT) is representable in 32 bits, get_delta_prime returns it as
\* a BigNumber.
C5_GetDeltaPrimeIsTableDeltaPrime ==
    LET table == TableDeltaPrime(predicate_in.p_type, predicate_in.value)
    IN  delta_prime_out # None /\ table # None
            => delta_prime_out = Returned(Ok(table.value))

\* C5 witness: get_delta_prime has returned i32::MIN + 1 - 1 for LT, a
\* negative number of ten digits.
C5_Witness ==
    /\ predicate_in # None
    /\ predicate_in.p_type = "LT"
    /\ predicate_in.value = I32Min + 1
    /\ delta_prime_out = Returned(Ok(I32Min))

(***************************************************************************)
(* Legacy members (C7, C8, C9)                                             *)
(***************************************************************************)
\* legacy carries the linkage secret in the top-level member field; current
\* has the same members otherwise, and its map has the same entries and
\* additionally master_secret with the same number
SameButFolded(legacy, current, field, map) ==
    /\ field \in DOMAIN legacy
    /\ map \in DOMAIN legacy
    /\ DOMAIN current = DOMAIN legacy \ {field}
    /\ \A f \in DOMAIN current \ {map} : current[f] = legacy[f]
    /\ "master_secret" \notin DOMAIN legacy[map]
    /\ DOMAIN current[map] = DOMAIN legacy[map] \cup {"master_secret"}
    /\ \A k \in DOMAIN legacy[map] : current[map][k] = legacy[map][k]
    /\ BigNumber_from_dec(current[map]["master_secret"])
           = BigNumber_from_dec(legacy[field])

BothDeserialized(type) ==
    /\ serde_type = type
    /\ serde_out[1] # None
    /\ serde_out[2] # None

\* C7 as stated: a public key with the linkage-secret base in rms and one
\* with that value as r.master_secret deserialize to equal objects.
C7_LegacyPublicKeyEqualsCurrent ==
    /\ BothDeserialized("CredentialPrimaryPublicKey")
    /\ SameButFolded(serde_json_in[1], serde_json_in[2], "rms", "r")
    => serde_out[1] = serde_out[2]

\* C7 amended: a public key with a non-zero rms and one with that value as
\* r.master_secret deserialize to equal objects.
C7_NonZeroLegacyPublicKeyEqualsCurrent ==
    /\ BothDeserialized("CredentialPrimaryPublicKey")
    /\ SameButFolded(serde_json_in[1], serde_json_in[2], "rms", "r")
    /\ BigNumber_from_dec(serde_json_in[1]["rms"]) # BigNumber_default
    => serde_out[1] = serde_out[2]

\* C7 witness: rms "05" and r.master_secret "5" have given the same key,
\* whose r holds 5 under master_secret.
C7_Witness ==
    /\ BothDeserialized("CredentialPrimaryPublicKey")
    /\ SameButFolded(serde_json_in[1], serde_json_in[2], "rms", "r")
    /\ serde_json_in[1]["rms"] = <<"0", "5">>
    /\ serde_json_in[2]["r"]["master_secret"] = <<"5">>
    /\ serde_out[1].ok
    /\ serde_out[1].value.r = [age |-> 7, master_secret |-> 5]
    /\ serde_out[2] = serde_out[1]

\* C8 as stated: an equality proof with the linkage-secret response in m1
\* and one with that value as m.master_secret deserialize to equal objects.
C8_LegacyEqualProofEqualsCurrent ==
    /\ BothDeserialized("PrimaryEqualProof")
    /\ SameButFolded(serde_json_in[1], serde_json_in[2], "m1", "m")
    => serde_out[1] = serde_out[2]

\* C8 amended: an equality proof with a non-zero m1 and one with that value
\* as m.master_secret deserialize to equal objects.
C8_NonZeroLegacyEqualProofEqualsCurrent ==
    /\ BothDeserialized("PrimaryEqualProof")
    /\ SameButFolded(serde_json_in[1], serde_json_in[2], "m1", "m")
    /\ BigNumber_from_dec(serde_json_in[1]["m1"]) # BigNumber_default
    => serde_out[1] = serde_out[2]

\* C8 witness: m1 "5" and m.master_secret "05" have given the same proof,
\* whose m holds 5 under master_secret.
C8_Witness ==
    /\ BothDeserialized("PrimaryEqualProof")
    /\ SameButFolded(serde_json_in[1], serde_json_in[2], "m1", "m")
    /\ serde_json_in[1]["m1"] = <<"5">>
    /\ serde_json_in[2]["m"]["master_secret"] = <<"0", "5">>
    /\ serde_out[1].ok
    /\ serde_out[1].value.m = [age |-> 7, master_secret |-> 5]
    /\ serde_out[2] = serde_out[1]

\* the legacy member of the input is absent or zero
LegacyAbsentOrZero(json, field) ==
    field \in DOMAIN json => BigNumber_from_dec(json[field]) = BigNumber_default

\* C9: when rms (public key) or m1 (equality proof) is absent or zero, the
\* deserialized map r (m) is the map of the input, entry for entry, and has
\* master_secret only if the input map has it.
C9_ZeroOrAbsentLegacyLeavesMap ==
    \A i \in DOMAIN serde_out :
        /\ serde_type = "CredentialPrimaryPublicKey"
              /\ serde_out[i] # None /\ serde_out[i].ok
              /\ LegacyAbsentOrZero(serde_json_in[i], "rms")
              => serde_out[i].value.r = RequiredMap(serde_json_in[i], "r").value
        /\ serde_type = "PrimaryEqualProof"
              /\ serde_out[i] # None /\ serde_out[i].ok
              /\ LegacyAbsentOrZero(serde_json_in[i], "m1")
              => serde_out[i].value.m = RequiredMap(serde_json_in[i], "m").value

\* C9 witness: a public key with rms "0" and no r.master_secret has been
\* deserialized, and its r has age alone.
C9_Witness ==
    /\ serde_type = "CredentialPrimaryPublicKey"
    /\ "rms" \in DOMAIN serde_json_in[1]
    /\ serde_json_in[1]["rms"] = <<"0">>
    /\ DOMAIN serde_json_in[1]["r"] = {"age"}
    /\ serde_out[1] # None
    /\ serde_out[1].ok
    /\ DOMAIN serde_out[1].value.r = {"age"}

(***************************************************************************)
(* Issuance and presentation (C1, C2, C6)                                  *)
(***************************************************************************)
\* the truth condition of a predicate on the attribute value m
PredicateHolds(predicate, m) ==
    CASE predicate.p_type = "GE" -> m >= predicate.value
      [] predicate.p_type = "GT" -> m > predicate.value
      [] predicate.p_type = "LE" -> m <= predicate.value
      [] predicate.p_type = "LT" -> m < predicate.value

\* the value of the attribute of a predicate of the run
ValueFor(predicate) == cred_values[predicate.attr_name].value

\* every predicate of the request of the run holds on the values
RequestHolds ==
    \A j \in DOMAIN sub_proof_request.predicates :
        PredicateHolds(sub_proof_request.predicates[j],
                       ValueFor(sub_proof_request.predicates[j]))

\* the first subtraction of get_delta overflows for a predicate of the run
RequestOverflows ==
    \E j \in DOMAIN sub_proof_request.predicates :
        LET predicate == sub_proof_request.predicates[j]
        IN  IF is_less(predicate)
            THEN SubOverflows(predicate.value, ValueFor(predicate))
            ELSE SubOverflows(ValueFor(predicate), predicate.value)

\* C1: a run on a request that the values satisfy does not fail, and its
\* verify returns true.
C1_PipelineVerifies ==
    step \in {"done", "failed"} /\ RequestHolds
        => step = "done" /\ verify_out = Ok(TRUE)

\* Where no subtraction of get_delta overflows, a run on a request that the
\* values satisfy ends with verify returning true.
PipelineVerifiesWithoutOverflow ==
    step \in {"done", "failed"} /\ RequestHolds /\ ~RequestOverflows
        => step = "done" /\ verify_out = Ok(TRUE)

\* C2: the proof for a predicate is built and verifies exactly when the
\* truth condition of the predicate holds on the attribute value.
C2_ProofVerifiesIffPredicateHolds ==
    step \in {"done", "failed"} /\ Len(sub_proof_request.predicates) = 1
        => (step = "done" /\ verify_out = Ok(TRUE) <=> RequestHolds)

\* Where no subtraction of get_delta overflows, the proof is built and
\* verifies exactly when the predicate holds.
ProofVerifiesIffPredicateHoldsWithoutOverflow ==
    step \in {"done", "failed"} /\ Len(sub_proof_request.predicates) = 1
       /\ ~RequestOverflows
        => (step = "done" /\ verify_out = Ok(TRUE) <=> RequestHolds)

\* C6: when the delta of a predicate of the request is negative (the
\* predicate does not hold), add_sub_proof_request fails with
\* InvalidStructure and no proof is produced.
C6_NegativeDeltaFailsWithInvalidStructure ==
    step \in {"finalize", "verify", "done", "failed"} /\ ~RequestHolds
        => /\ step = "failed"
           /\ failure = Err("InvalidStructure")
           /\ proof = None

\* Where no subtraction of get_delta overflows, a predicate that does not
\* hold makes add_sub_proof_request fail with InvalidStructure.
NegativeDeltaFailsWithoutOverflow ==
    step \in {"finalize", "verify", "done", "failed"} /\ ~RequestHolds
      /\ ~RequestOverflows
        => /\ step = "failed"
           /\ failure = Err("InvalidStructure")
           /\ proof = None

\* the request of the run is the one predicate (age, p_type, k)
OnlyPredicate(p_type, k) ==
    sub_proof_request.predicates
        = <<[attr_name |-> "age", p_type |-> p_type, value |-> k]>>

\* C1: the run that departs: age = 2 satisfies age GE i32::MIN, and
\* add_sub_proof_request panics in a build that checks overflow.
C1_FailingRun ==
    /\ overflow_checks
    /\ OnlyPredicate("GE", I32Min)
    /\ cred_values["age"].value = 2
    /\ step = "failed"
    /\ failure = Panicked

\* C2: the run that departs: age = 2 satisfies age GE i32::MIN, and in a
\* build that wraps add_sub_proof_request fails with InvalidStructure.
C2_FailingRun ==
    /\ ~overflow_checks
    /\ OnlyPredicate("GE", I32Min)
    /\ cred_values["age"].value = 2
    /\ step = "failed"
    /\ failure = Err("InvalidStructure")

\* C6: the run that departs: age = 2 does not satisfy age LE i32::MIN, and
\* in a build that wraps a proof is produced (verify returns false).
C6_FailingRun ==
    /\ ~overflow_checks
    /\ OnlyPredicate("LE", I32Min)
    /\ cred_values["age"].value = 2
    /\ step = "done"
    /\ proof # None
    /\ verify_out = Ok(FALSE)


(***************************************************************************)
(* Schemas and key generation                                              *)
(***************************************************************************)
\* the names that belong to both schemas
SharedAttrs ==
    Elems(credential_schema.attrs) \cap Elems(non_credential_schema.attrs)

\* C11: no sequence of builder operations followed by new_credential_def
\* yields a credential definition in which an attribute name belongs to
\* both the credential schema and the non-credential schema.
C11_SchemasOfCredentialDefAreDisjoint ==
    cred_def # None => SharedAttrs = {}

\* add_attr("age") on both builders, both finalized, new_credential_def
\* returns keys: r has the one entry "age" for the two attributes
C11_SharedAttrRun ==
    /\ cred_def # None
    /\ SharedAttrs = {"age"}
    /\ "age" \in DOMAIN cred_def.cred_pub_key.r

\* C12: a CredentialSchema finalized without any add_attr call gives no
\* credential definition: new_credential_def fails with InvalidStructure
\* and produces no key.
C12_EmptySchemaIsRefused ==
    /\ credential_schema # None /\ schema_calls = <<>>
    /\ step # "new_credential_def"
    => /\ step = "failed"
       /\ failure = Err("InvalidStructure")
       /\ cred_def = None

C12_Witness ==
    /\ credential_schema = [attrs |-> <<>>]
    /\ schema_calls = <<>>
    /\ non_credential_schema = [attrs |-> <<"master_secret">>]
    /\ step = "failed"

\* C15: the key correctness proof returned by new_credential_def verifies
\* against the public key returned with it.
C15_KeyCorrectnessProofVerifies ==
    cred_def # None
        => check_credential_key_correctness_proof(
               cred_def.cred_pub_key,
               cred_def.cred_key_correctness_proof) = Ok(TRUE)

C15_Witness ==
    /\ cred_def # None
    /\ DOMAIN cred_def.cred_pub_key.r = {"age", "name", "master_secret"}
    /\ DOMAIN cred_def.cred_key_correctness_proof.xr_cap
           = {"age", "name", "master_secret"}


(***************************************************************************)
(* The run with handed values                                              *)
(***************************************************************************)
\* the verifier's call on the proof of the run and a nonce
VerifyOf(nonce) ==
    ProofVerifier_verify(proof, nonce, sub_proof_request, credential_schema,
                         non_credential_schema, cred_def.cred_pub_key)

\* C13: verifying a proof with a nonce other than the one given to the
\* proof builder's finalize returns false.
C13_OtherNonceDoesNotVerify ==
    step = "done" /\ shown_proof = proof /\ verify_nonce_in # <<nonces[3]>>
        => verify_out = Ok(FALSE)

\* a proof that verifies with the nonce of finalize has been verified with
\* another nonce
C13_Witness ==
    /\ step = "done" /\ shown_proof = proof /\ verify_nonce_in # <<nonces[3]>>
    /\ sub_proof_request.predicates # <<>>
    /\ VerifyOf(nonces[3]) = Ok(TRUE)
    /\ verify_out = Ok(FALSE)

\* C14: a proof in which the value of a revealed attribute has been changed
\* does not verify.
C14_ChangedRevealedValueDoesNotVerify ==
    step = "done" /\ shown_proof # proof /\ verify_nonce_in = <<nonces[3]>>
        => verify_out = Ok(FALSE)

\* the proof of the run verifies; with name revealed as 6 in place of 5 it
\* has been shown to the verifier
C14_Witness ==
    /\ step = "done" /\ verify_nonce_in = <<nonces[3]>>
    /\ shown_proof # proof
    /\ proof.proofs[1].primary_proof.eq_proof.revealed_attrs["name"] = 5
    /\ shown_proof = WithRevealedIncreased(proof, "name")
    /\ VerifyOf(nonces[3]) = Ok(TRUE)
    /\ verify_out = Ok(FALSE)

\* the check of the key correctness proof handed to the prover
HandedKeyCorrectnessProofChecks ==
    check_credential_key_correctness_proof(cred_def.cred_pub_key, kcp_in)

\* C16: when the key correctness proof does not verify against the public
\* key, blind_credential_secrets returns the error of the check and
\* produces no blinded secrets, blinding factors or correctness proof.
C16_BlindRefusesBadKeyCorrectnessProof ==
    kcp_in # None /\ ~HandedKeyCorrectnessProofChecks.ok
        => /\ step = "failed"
           /\ failure = HandedKeyCorrectnessProofChecks
           /\ ~failure.ok
           /\ blinded = None

C16_Witness ==
    /\ kcp_in # None
    /\ kcp_in # cred_def.cred_key_correctness_proof
    /\ failure = Err("InvalidProof")
    /\ step = "failed" /\ blinded = None

\* the check of the blinded secrets correctness proof against the nonce
\* handed to the issuer
HandedNonceChecks ==
    check_blinded_credential_secrets_correctness_proof(
        blinded.blinded_credential_secrets,
        blinded.blinded_credential_secrets_correctness_proof,
        sign_nonce_in[1], cred_def.cred_pub_key)

\* C17: sign_credential has issued a signature only where the blinded
\* secrets correctness proof verifies against the credential nonce; with
\* another nonce than the prover's it fails with InvalidStructure and there
\* is no signature.
C17_SignChecksBlindedSecretsProof ==
    sign_nonce_in # <<>>
        => /\ signed # None => HandedNonceChecks = Ok(TRUE)
           /\ sign_nonce_in # <<nonces[1]>>
                  => /\ step = "failed"
                     /\ failure = Err("InvalidStructure")
                     /\ signed = None

C17_Witness ==
    /\ sign_nonce_in # <<>> /\ sign_nonce_in # <<nonces[1]>>
    /\ blinded # None
    /\ step = "failed" /\ failure = Err("InvalidStructure")
    /\ signed = None

\* A^e * prod_a r_a^(m_a) * s^v = z (mod n) over all attributes of the
\* credential values
SignatureEquation(a, e, v) ==
    LET pub_key == cred_def.cred_pub_key
        n == pub_key.n
        m == ValueMap(cred_values)
    IN  ModMul(ModExp(a, e, n),
               ModMul(ProdExp(SortedNames(DOMAIN m), pub_key.r, m, n),
                      ModExp(pub_key.s, v, n), n), n) = pub_key.z

\* the signature correctness proof of the handed signature checks: with
\* Q' = z / (s^v * prod_a r_a^(m_a)), the challenge of (Q', A, A^c Q'^se, n1) is c
SignatureProofChecks(v) ==
    LET pub_key == cred_def.cred_pub_key
        n == pub_key.n
        m == ValueMap(cred_values)
        a == signature_in.cred_signature.a
        scp == signature_in.signature_correctness_proof
        q == ModMul(pub_key.z,
                    ModInverse(ModMul(ModExp(pub_key.s, v, n),
                                      ProdExp(SortedNames(DOMAIN m),
                                              pub_key.r, m, n), n), n), n)
    IN  get_hash_as_int(<<q, a,
                          ModMul(ModExp(a, scp.c, n), ModExp(q, scp.se, n), n),
                          nonces[2]>>) = scp.c

\* v' + v''
HandedV ==
    blinded.credential_secrets_blinding_factors.v_prime
        + signature_in.cred_signature.v

\* C18: after process_credential_signature has returned successfully the
\* signature (A, e, v) has v = v' + v'' and satisfies
\* A^e * prod_a r_a^(m_a) * s^v = z (mod n); where that equation or the
\* signature correctness proof does not check, the call has failed with
\* InvalidStructure.
C18_ProcessedSignatureSatisfiesEquation ==
    signature_in # None
        => IF SignatureEquation(signature_in.cred_signature.a,
                                signature_in.cred_signature.e, HandedV)
              /\ SignatureProofChecks(HandedV)
           THEN /\ signed.cred_signature.v = HandedV
                /\ SignatureEquation(signed.cred_signature.a,
                                     signed.cred_signature.e,
                                     signed.cred_signature.v)
           ELSE /\ step = "failed"
                /\ failure = Err("InvalidStructure")

\* the honest signature has been processed
C18_Witness ==
    /\ signature_in # None
    /\ step = "add_sub_proof_request"
    /\ signed.cred_signature.v = HandedV
    /\ signed.cred_signature.v # signature_in.cred_signature.v
    /\ SignatureEquation(signed.cred_signature.a, signed.cred_signature.e,
                         signed.cred_signature.v)

\* a signature with v'' changed has been refused
C18_RefusedWitness ==
    /\ signature_in # None
    /\ ~SignatureEquation(signature_in.cred_signature.a,
                          signature_in.cred_signature.e, HandedV)
    /\ step = "failed" /\ failure = Err("InvalidStructure")


(***************************************************************************)
(* new_nonce and the C interface                                           *)
(***************************************************************************)
\* 0 <= x < 2^80 for the number x of the limbs: every limb is a 16-bit
\* number and the limbs from bit 80 on are zero
BelowTwoToThe80(limbs) ==
    \A i \in DOMAIN limbs :
        /\ 0 <= limbs[i] /\ limbs[i] < 2 ^ LimbBits
        /\ LimbBits * (i - 1) >= 80 => limbs[i] = 0

\* C19: every value new_nonce returns on success is non-negative and
\* strictly less than 2^80.
C19_NonceIsBelowTwoToThe80 ==
    \A k \in DOMAIN nonce_out :
        nonce_out[k].ok => BelowTwoToThe80(nonce_out[k].value)

\* two calls have returned different nonces, the first of fully 80 bits
C19_Witness ==
    /\ Len(nonce_out) = 2
    /\ nonce_out[1].ok /\ nonce_out[2].ok
    /\ nonce_out[1] # nonce_out[2]
    /\ Len(nonce_out[1].value) = 5
    /\ nonce_out[1].value[5] >= 2 ^ (LimbBits - 1)

\* C20: a builder handle from cl_credential_schema_builder_new stays
\* allocated across cl_credential_schema_builder_add_attr calls (and every
\* call but its finalize); cl_credential_schema_builder_finalize with
\* non-null arguments deallocates the builder, stores a non-null schema
\* instance pointer and returns Success; the schema instance stays
\* allocated until cl_credential_schema_free is called on it, which returns
\* Success.  (Calls on handles that are not live are undefined and are not
\* spoken of.)
C20_HandleLifecycle ==
    [][~ffi_undefined' =>
         \A h \in Addrs :
             /\ IsBuilder(ffi_heap[h])
                  /\ ~(/\ ffi_last'.fn = "cl_credential_schema_builder_finalize"
                       /\ ffi_last'.handle = h)
                    => IsBuilder(ffi_heap'[h])
             /\ IsBuilder(ffi_heap[h])
                  /\ ffi_last'.fn = "cl_credential_schema_builder_finalize"
                  /\ ffi_last'.handle = h
                  /\ ffi_last'.arg # NullPtr
                    => /\ ~IsBuilder(ffi_heap'[h])
                       /\ ffi_last'.res = "Success"
                       /\ ffi_last'.out # NullPtr
                       /\ IsSchema(ffi_heap'[ffi_last'.out])
             /\ IsSchema(ffi_heap[h])
                  /\ ~(/\ ffi_last'.fn = "cl_credential_schema_free"
                       /\ ffi_last'.handle = h)
                    => ffi_heap'[h] = ffi_heap[h]
             /\ IsSchema(ffi_heap[h])
                  /\ ffi_last'.fn = "cl_credential_schema_free"
                  /\ ffi_last'.handle = h
                    => ffi_last'.res = "Success"]_vars

\* new, add_attr of Sex and of name, then finalize: the schema of the two
\* names is at the returned address, here the address the builder had
C20_Witness ==
    /\ ~ffi_undefined
    /\ ffi_count = 4
    /\ ffi_last.fn = "cl_credential_schema_builder_finalize"
    /\ ffi_last.res = "Success"
    /\ ffi_last.out = ffi_last.handle
    /\ ffi_heap[ffi_last.out] =
           [type |-> "CredentialSchema", attrs |-> <<"Sex", "name">>]

\* new, add_attr, finalize, then free of the schema: nothing is allocated
C20_FreedWitness ==
    /\ ~ffi_undefined
    /\ ffi_count = 4
    /\ ffi_last.fn = "cl_credential_schema_free"
    /\ ffi_last.res = "Success"
    /\ \A a \in Addrs : ffi_heap[a] = None


(***************************************************************************)
(* The lists of the init proof                                             *)
(***************************************************************************)
\* the number of the list entries of the inequality init proofs before the
\* j-th
RECURSIVE EntriesBefore(_, _, _)
EntriesBefore(ne_proofs, j, field) ==
    IF j = 1 THEN 0
    ELSE EntriesBefore(ne_proofs, j - 1, field)
             + Len(ne_proofs[j - 1][field])

\* list is the byte form of first, then of the field of every inequality
\* init proof, in the order of ne_proofs and in each proof's own order
IsFirstThenEach(list, first, ne_proofs, field) ==
    /\ Len(list) = 1 + EntriesBefore(ne_proofs, Len(ne_proofs) + 1, field)
    /\ list[1] = BigNumber_to_bytes(first)
    /\ BigNumber_from_bytes(list[1]) = first
    /\ \A j \in DOMAIN ne_proofs :
           \A i \in DOMAIN ne_proofs[j][field] :
               /\ list[1 + EntriesBefore(ne_proofs, j, field) + i]
                      = BigNumber_to_bytes(ne_proofs[j][field][i])
               /\ BigNumber_from_bytes(
                      list[1 + EntriesBefore(ne_proofs, j, field) + i])
                      = ne_proofs[j][field][i]

\* C21: as_c_list is the equality proof's A' followed by the c_list entries
\* of every inequality init proof in the order of ne_proofs; as_tau_list is
\* T followed by their tau_list entries in the same order; the lengths are
\* 1 plus the sum of the lengths of the inequality lists.
C21_ListsAreEqualityEntryThenInequalityEntries ==
    init_proofs # None =>
        /\ IsFirstThenEach(init_proofs.c_list, init_proofs.eq_proof.a_prime,
                           init_proofs.ne_proofs, "c_list")
        /\ IsFirstThenEach(init_proofs.tau_list, init_proofs.eq_proof.t,
                           init_proofs.ne_proofs, "tau_list")

\* an init proof with two inequality proofs whose lists differ
C21_Witness ==
    /\ init_proofs # None
    /\ Len(init_proofs.ne_proofs) = 2
    /\ init_proofs.ne_proofs[1].c_list # init_proofs.ne_proofs[2].c_list
    /\ Len(init_proofs.c_list) = 1 + 2 * (ITERATION + 1)
    /\ Len(init_proofs.tau_list) = 1 + 2 * (ITERATION + 2)
    /\ \E i \in DOMAIN init_proofs.c_list : Len(init_proofs.c_list[i]) = 2


(***************************************************************************)
(* The predicate arithmetic                                                *)
(***************************************************************************)
\* C22: for every 32-bit m and k and each of the four predicate types, the
\* subtractions of get_delta and the k + 1 / k - 1 of get_delta_prime yield
\* the exact mathematical result, without wrapping or aborting.
C22_PredicateArithmeticIsExact ==
    /\ delta_out # None =>
           LET table == TableDelta(predicate_in.p_type, predicate_in.value,
                                   attr_value_in)
           IN  table # None /\ delta_out = Returned(table.value)
    /\ delta_prime_out # None =>
           LET table == TableDeltaPrime(predicate_in.p_type,
                                        predicate_in.value)
           IN  table # None /\ delta_prime_out = Returned(Ok(table.value))

\* C22: GE with k = i32::MIN on m = 1 in a build that does not check
\* overflow: m - k = 2147483649 has wrapped to -2147483647
C22_FailingInput ==
    /\ ~overflow_checks
    /\ predicate_in # None
    /\ predicate_in.p_type = "GE"
    /\ predicate_in.value = I32Min
    /\ attr_value_in = 1
    /\ delta_out = Returned(I32Min + 1)

\* get_delta_prime of GT with k = i32::MAX: k + 1 has wrapped to i32::MIN,
\* or the call has panicked
C22_FailingDeltaPrime ==
    /\ predicate_in # None
    /\ predicate_in.p_type = "GT"
    /\ predicate_in.value = I32Max
    /\ delta_prime_out # None
    /\ IF overflow_checks THEN delta_prime_out = Panicked
       ELSE delta_prime_out = Returned(Ok(I32Min))

\* the difference of get_delta's result and get_delta_prime's fits 32 bits
\* and is x
DifferenceIs(a, b, x) == ~SubOverflows(a, b) /\ a - b = x

\* C23: where no 32-bit overflow occurs, get_delta(m) = m - get_delta_prime()
\* when is_less() is false and get_delta(m) = get_delta_prime() - m when
\* is_less() is true; is_less is true exactly for LE and LT.
C23_DeltaAgreesWithDeltaPrime ==
    /\ is_less_out # None =>
           is_less_out = Returned(predicate_in.p_type \in {"LE", "LT"})
    /\ (/\ delta_out # None /\ delta_prime_out # None /\ is_less_out # None
        /\ TableDelta(predicate_in.p_type, predicate_in.value, attr_value_in)
               # None
        /\ TableDeltaPrime(predicate_in.p_type, predicate_in.value) # None
        /\ ~delta_out.panic /\ ~delta_prime_out.panic)
       => (/\ delta_prime_out.value.ok
           /\ IF is_less_out.value
              THEN DifferenceIs(delta_prime_out.value.value, attr_value_in,
                                delta_out.value)
              ELSE DifferenceIs(attr_value_in, delta_prime_out.value.value,
                                delta_out.value))

\* LT 29 on 28: delta 0 = 28 - 28, and GT 18 on 28: delta 9 = 28 - 19
C23_Witness ==
    /\ predicate_in # None
    /\ predicate_in.p_type = "LT" /\ predicate_in.value = 29
    /\ attr_value_in = 28
    /\ is_less_out = Returned(TRUE)
    /\ delta_prime_out = Returned(Ok(28))
    /\ delta_out = Returned(0)

\* the type a function of the C interface takes its handle to
HandleType(fn) ==
    CASE fn \in {"cl_credential_schema_builder_add_attr",
                 "cl_credential_schema_builder_finalize"} ->
             "CredentialSchemaBuilder"
      [] fn = "cl_credential_schema_free" -> "CredentialSchema"
      [] fn \in {"cl_non_credential_schema_builder_add_attr",
                 "cl_non_credential_schema_builder_finalize"} ->
             "NonCredentialSchemaBuilder"
      [] fn = "cl_non_credential_schema_free" -> "NonCredentialSchema"
      [] fn \in {"cl_sub_proof_request_builder_add_predicate",
                 "cl_sub_proof_request_builder_finalize"} ->
             "SubProofRequestBuilder"
      [] fn \in {"cl_credential_values_builder_add_dec_known",
                 "cl_credential_values_builder_add_dec_hidden",
                 "cl_credential_values_builder_add_dec_commitment",
                 "cl_credential_values_builder_finalize"} ->
             "CredentialValuesBuilder"
      [] OTHER -> "none"

\* C24: in the calls the module itself makes, a handle that
\* cl_non_credential_schema_builder_new returned is only given to the
\* functions of the non credential schema builder, and it is finalized by
\* cl_non_credential_schema_builder_finalize: every call takes a handle of
\* the type of its function
C24_HandlesGoToFunctionsOfTheirType ==
    (ffi_last # None /\ ffi_last.handle # NullPtr)
        => ffi_last.was = HandleType(ffi_last.fn)

\* _free_non_credential_schema_builder has handed a non credential schema
\* builder to cl_credential_schema_builder_finalize
C24_FailingInput ==
    /\ ffi_last # None
    /\ ffi_last.fn = "cl_credential_schema_builder_finalize"
    /\ ffi_last.was = "NonCredentialSchemaBuilder"
    /\ ffi_last.arg = OutSlot
    /\ ffi_undefined

Pointer(p) == [kind |-> "pointer", v |-> p]

CString(c) == [kind |-> "string", v |-> c]

\* the pointers and strings of a call, in the order of the declaration
ArgumentsOf(call) ==
    CASE call.fn \in {"cl_credential_schema_builder_new",
                      "cl_sub_proof_request_builder_new",
                      "cl_credential_values_builder_new"} ->
             <<Pointer(call.arg)>>
      [] call.fn = "cl_credential_schema_builder_add_attr" ->
             <<Pointer(call.handle), CString(call.arg)>>
      [] call.fn \in {"cl_credential_schema_builder_finalize",
                      "cl_sub_proof_request_builder_finalize",
                      "cl_credential_values_builder_finalize"} ->
             <<Pointer(call.handle), Pointer(call.arg)>>
      [] call.fn = "cl_sub_proof_request_builder_add_predicate" ->
             <<Pointer(call.handle), CString(call.arg[1]),
               CString(call.arg[2])>>
      [] call.fn = "cl_nonce_from_json" ->
             <<CString(call.arg[1]), Pointer(call.arg[2])>>

\* a null pointer, or a string that is null, not UTF-8 or empty
IsInvalidArgument(a) ==
    IF a.kind = "pointer" THEN a.v = NullPtr
    ELSE a.v.null \/ ~a.v.utf8 \/ a.v.text = ""

\* the place of the first invalid argument, 0 when there is none
FirstInvalid(args) ==
    LET invalid == {i \in DOMAIN args : IsInvalidArgument(args[i])}
    IN  IF invalid = {} THEN 0
        ELSE CHOOSE i \in invalid : \A j \in invalid : i <= j

InvalidParamCodes ==
    <<"CommonInvalidParam1", "CommonInvalidParam2", "CommonInvalidParam3">>

\* C25: a call whose first null pointer or null, non-UTF-8 or empty string
\* is its N-th argument returns CommonInvalidParamN, and it allocates
\* nothing, changes no builder and writes no result; a call without such an
\* argument returns none of these codes
C25_FirstInvalidArgumentIsReported ==
    [][ffi_count' = ffi_count + 1 =>
           LET n == FirstInvalid(ArgumentsOf(ffi_last'))
           IN  IF n > 0
               THEN /\ ffi_last'.res = InvalidParamCodes[n]
                    /\ ffi_heap' = ffi_heap
                    /\ ffi_last'.out = NullPtr
               ELSE \A i \in DOMAIN InvalidParamCodes :
                        ffi_last'.res # InvalidParamCodes[i]]_vars

\* add_predicate on a builder that holds a predicate was given a proper
\* attr_name and an empty p_type
C25_Witness ==
    /\ ffi_last # None
    /\ ffi_last.fn = "cl_sub_proof_request_builder_add_predicate"
    /\ ffi_last.was = "SubProofRequestBuilder"
    /\ ffi_last.arg[1].text = "name"
    /\ ~ffi_last.arg[2].null /\ ffi_last.arg[2].text = ""
    /\ ffi_last.res = "CommonInvalidParam3"
    /\ ffi_heap[ffi_last.handle].predicates # <<>>

\* cl_nonce_from_json was given a null string and a null pointer
C25_BothInvalidWitness ==
    /\ ffi_last # None
    /\ ffi_last.fn = "cl_nonce_from_json"
    /\ ffi_last.arg[1].null /\ ffi_last.arg[2] = NullPtr
    /\ ffi_last.res = "CommonInvalidParam1"

FinalizeFunctions ==
    {"cl_credential_schema_builder_finalize",
     "cl_sub_proof_request_builder_finalize",
     "cl_credential_values_builder_finalize"}

\* the type of what a finalize function boxes
BuiltType(fn) ==
    CASE fn = "cl_credential_schema_builder_finalize" -> "CredentialSchema"
      [] fn = "cl_sub_proof_request_builder_finalize" -> "SubProofRequest"
      [] fn = "cl_credential_values_builder_finalize" -> "CredentialValues"

\* C26: a finalize that is given a builder and a null pointer for the
\* result returns CommonInvalidParam2 and leaves the builder, and all else
\* that is allocated, as it was; a finalize that is given a builder and a
\* proper pointer returns Success, and what it boxes holds what the builder
\* held
C26_FinalizeWithNullResultKeepsBuilder ==
    [][(/\ ffi_count' = ffi_count + 1
        /\ ffi_last'.fn \in FinalizeFunctions
        /\ ffi_last'.was = HandleType(ffi_last'.fn)) =>
           IF ffi_last'.arg = NullPtr
           THEN /\ ffi_last'.res = "CommonInvalidParam2"
                /\ ffi_heap' = ffi_heap
                /\ ffi_last'.out = NullPtr
           ELSE /\ ffi_last'.res = "Success"
                /\ ffi_last'.out \in Addrs
                /\ ffi_heap'[ffi_last'.out] =
                       [ffi_heap[ffi_last'.handle] EXCEPT
                            !.type = BuiltType(ffi_last'.fn)]
                /\ \A a \in Addrs \ {ffi_last'.out, ffi_last'.handle} :
                       ffi_heap'[a] = ffi_heap[a]]_vars

\* finalize of a sub proof request builder that holds a predicate was given
\* a null pointer for the result
C26_Witness ==
    /\ ffi_last # None
    /\ ffi_last.fn = "cl_sub_proof_request_builder_finalize"
    /\ ffi_last.was = "SubProofRequestBuilder"
    /\ ffi_last.arg = NullPtr
    /\ ffi_last.res = "CommonInvalidParam2"
    /\ ffi_heap[ffi_last.handle].predicates # <<>>

\* a sub proof request with a predicate came out of finalize
C26_FinalizedWitness ==
    /\ ffi_last # None
    /\ ffi_last.fn = "cl_sub_proof_request_builder_finalize"
    /\ ffi_last.res = "Success"
    /\ ffi_heap[ffi_last.out].type = "SubProofRequest"
    /\ ffi_heap[ffi_last.out].predicates # <<>>

\* the predicates the calls of add_predicate that returned Ok asked for
AddedTriples ==
    {[attr_name |-> request_calls[i].attr_name,
      p_type |-> request_calls[i].p_type,
      value |-> request_calls[i].value] :
         i \in {j \in DOMAIN request_calls : request_calls[j].res.ok}}

\* the predicates of the builder, or of the request it was finalized to
PredicatesNow ==
    IF request_builder # None THEN request_builder.value.predicates
    ELSE sub_proof_request.predicates

\* the order of the variants in the declaration of PredicateType
VariantPlace(p_type) ==
    CASE p_type = "GE" -> 1 [] p_type = "LE" -> 2
      [] p_type = "GT" -> 3 [] p_type = "LT" -> 4

\* a comes before b: by attr_name, then by p_type, then by value
TripleBefore(a, b) ==
    \/ StrLess(a.attr_name, b.attr_name)
    \/ /\ a.attr_name = b.attr_name
       /\ VariantPlace(a.p_type) < VariantPlace(b.p_type)
    \/ /\ a.attr_name = b.attr_name /\ a.p_type = b.p_type
       /\ a.value < b.value

\* C27: the predicates of a builder and of the request it is finalized to
\* are the set of the triples that were added: each triple once, in the
\* order of (attr_name, p_type, value), whatever the order and the number
\* of the calls; two predicates on one attribute are both kept
C27_PredicatesAreOrderedSetOfAddedTriples ==
    (request_builder # None \/ sub_proof_request # None) =>
        /\ Elems(PredicatesNow) = AddedTriples
        /\ Len(PredicatesNow) = Cardinality(AddedTriples)
        /\ \A i, j \in DOMAIN PredicatesNow :
               i < j => TripleBefore(PredicatesNow[i], PredicatesNow[j])

\* LT 18 and then GT 0 were added on age: the request holds both, GT first
C27_Witness ==
    /\ sub_proof_request # None
    /\ Len(request_calls) = 2
    /\ request_calls[1].p_type = "LT" /\ request_calls[1].value = 18
    /\ request_calls[1].attr_name = "age"
    /\ sub_proof_request.predicates =
           <<[attr_name |-> "age", p_type |-> "GT", value |-> 0],
             [attr_name |-> "age", p_type |-> "LT", value |-> 18]>>

\* the same predicate was added twice: the request holds it once
C27_TwiceWitness ==
    /\ sub_proof_request # None
    /\ Len(request_calls) = 2
    /\ request_calls[1] = request_calls[2]
    /\ Len(sub_proof_request.predicates) = 1

\* the call of add_predicate a step makes
LastRequestCall == request_calls'[Len(request_calls')]

\* C28: a call of add_predicate that fails, which it does for a p_type that
\* is none of the four tokens, returns InvalidStructure and leaves the
\* builder, its revealed attributes and its predicates, as it was
C28_FailedAddPredicateLeavesBuilder ==
    [][(/\ Len(request_calls') = Len(request_calls) + 1
        /\ ~LastRequestCall.res.ok) =>
           /\ LastRequestCall.p_type \notin {"GE", "LE", "GT", "LT"}
           /\ LastRequestCall.res.err = "InvalidStructure"
           /\ request_builder' = request_builder]_vars

\* a builder that holds a revealed attribute and a predicate was given the
\* p_type EQ
C28_Witness ==
    /\ request_builder # None
    /\ Len(request_calls) = 2
    /\ request_calls[1].res.ok
    /\ request_calls[2].p_type = "EQ" /\ ~request_calls[2].res.ok
    /\ request_builder.value.revealed_attrs = <<"name">>
    /\ request_builder.value.predicates =
           <<[attr_name |-> request_calls[1].attr_name,
              p_type |-> request_calls[1].p_type,
              value |-> request_calls[1].value]>>

AddDecFunctions ==
    {"cl_credential_values_builder_add_dec_known",
     "cl_credential_values_builder_add_dec_hidden",
     "cl_credential_values_builder_add_dec_commitment"}

\* the number a decimal text of the calls spells
NumberSpelled(text) ==
    CASE text = "3" -> 3 [] text = "5" -> 5 [] text = "7" -> 7

\* the entry a call of an add_dec function gives
EntryGiven(call) ==
    CASE call.fn = "cl_credential_values_builder_add_dec_known" ->
             [kind |-> "Known", value |-> NumberSpelled(call.arg[2].text)]
      [] call.fn = "cl_credential_values_builder_add_dec_hidden" ->
             [kind |-> "Hidden", value |-> NumberSpelled(call.arg[2].text)]
      [] call.fn = "cl_credential_values_builder_add_dec_commitment" ->
             [kind |-> "Commitment",
              value |-> NumberSpelled(call.arg[2].text),
              blinding_factor |-> NumberSpelled(call.arg[3].text)]

\* exactly one of is_known, is_hidden, is_commitment
HasOneFlavour(value) ==
    Cardinality({f \in {"is_known", "is_hidden", "is_commitment"} :
                     CASE f = "is_known" -> is_known(value)
                       [] f = "is_hidden" -> is_hidden(value)
                       [] f = "is_commitment" -> is_commitment(value)}) = 1

\* C29: a call of an add_* function that succeeds leaves, under the name it
\* was given, the value and the flavour it was given, whatever was there
\* before, and leaves the entries of all other names as they were; a call
\* that fails changes nothing; every entry has exactly one of the three
\* flavours.  The entry of a name is therefore the one of the last call for
\* that name.
C29_LastAddForNameWins ==
    [][(/\ ffi_count' = ffi_count + 1
        /\ ffi_last'.fn \in AddDecFunctions
        /\ ffi_last'.was = "CredentialValuesBuilder") =>
           LET before == ffi_heap[ffi_last'.handle].attrs_values
               after == ffi_heap'[ffi_last'.handle].attrs_values
               name == ffi_last'.arg[1].text
           IN  /\ IF ffi_last'.res = "Success"
                  THEN /\ DOMAIN after = DOMAIN before \cup {name}
                       /\ after[name] = EntryGiven(ffi_last')
                       /\ \A k \in DOMAIN before \ {name} :
                              after[k] = before[k]
                  ELSE ffi_heap' = ffi_heap
               /\ \A k \in DOMAIN after : HasOneFlavour(after[k])]_vars

\* what finalize boxes holds the entries of the builder
C29_FinalizeKeepsEntries ==
    [][(/\ ffi_count' = ffi_count + 1
        /\ ffi_last'.fn = "cl_credential_values_builder_finalize"
        /\ ffi_last'.res = "Success") =>
           /\ ffi_heap'[ffi_last'.out].type = "CredentialValues"
           /\ ffi_heap'[ffi_last'.out].attrs_values =
                  ffi_heap[ffi_last'.handle].attrs_values]_vars

\* age was given again, as a commitment, after two other calls: the values
\* hold the commitment for age and name as it was given
C29_Witness ==
    /\ ffi_last # None
    /\ ffi_count = 4
    /\ ffi_last.fn = "cl_credential_values_builder_add_dec_commitment"
    /\ ffi_last.res = "Success"
    /\ ffi_last.arg[1].text = "age"
    /\ ffi_heap[ffi_last.handle].attrs_values =
           [k \in {"age", "name"} |->
                IF k = "age"
                THEN [kind |-> "Commitment", value |-> 7,
                      blinding_factor |-> 3]
                ELSE [kind |-> "Known", value |-> 5]]

\* a call with a text that is no decimal has failed on a builder with an
\* entry
C29_RefusedWitness ==
    /\ ffi_last # None
    /\ ffi_last.fn = "cl_credential_values_builder_add_dec_hidden"
    /\ ffi_last.res = "CommonInvalidStructure"
    /\ ffi_last.arg[1].text \in DOMAIN ffi_heap[ffi_last.handle].attrs_values

\* the number a decimal text of the inputs spells
SpelledBy(dec) == BigNumber_from_dec(dec).value

\* json has all the members of its type, a legacy member that is not zero,
\* and in its map an entry for master_secret with another number
HasBothAndTheyDiffer(json, members, field, map) ==
    /\ members \subseteq DOMAIN json
    /\ field \in DOMAIN json
    /\ SpelledBy(json[field]) # 0
    /\ "master_secret" \in DOMAIN json[map]
    /\ SpelledBy(json[map]["master_secret"]) # SpelledBy(json[field])

\* out is ok; its map has the names of the map of json, the number of the
\* legacy member under master_secret and the numbers of json under the
\* other names; its numbers are those of json
HoldsLegacyAndRest(out, json, numbers, field, map) ==
    /\ out.ok
    /\ DOMAIN out.value[map] = DOMAIN json[map]
    /\ out.value[map]["master_secret"] = SpelledBy(json[field])
    /\ \A k \in DOMAIN json[map] \ {"master_secret"} :
           out.value[map][k] = SpelledBy(json[map][k])
    /\ \A f \in numbers : out.value[f] = SpelledBy(json[f])

\* C30: a public key with a non-zero rms and another number under
\* r.master_secret, and an equality proof with a non-zero m1 and another
\* number under m.master_secret, are deserialized, and the map of the
\* result holds the number of rms (m1) under master_secret; the other
\* entries of the map and the other members are those of the input
C30_LegacyMemberReplacesMapEntry ==
    \A i \in DOMAIN serde_out :
        /\ (/\ serde_type = "CredentialPrimaryPublicKey"
            /\ serde_out[i] # None
            /\ HasBothAndTheyDiffer(serde_json_in[i], {"n", "s", "r", "z"},
                                    "rms", "r"))
              => HoldsLegacyAndRest(serde_out[i], serde_json_in[i],
                                    {"n", "s", "z"}, "rms", "r")
        /\ (/\ serde_type = "PrimaryEqualProof"
            /\ serde_out[i] # None
            /\ HasBothAndTheyDiffer(serde_json_in[i],
                                    {"revealed_attrs", "a_prime", "e", "v",
                                     "m"}, "m1", "m"))
              => /\ HoldsLegacyAndRest(serde_out[i], serde_json_in[i],
                                       {"a_prime", "e", "v"}, "m1", "m")
                 /\ serde_out[i].value.revealed_attrs = [name |-> 7]

\* an equality proof with m1 "5" and m.master_secret "0" has been
\* deserialized: its m holds 5 under master_secret and age as given
C30_Witness ==
    /\ serde_type = "PrimaryEqualProof"
    /\ serde_out[1] # None
    /\ HasBothAndTheyDiffer(serde_json_in[1],
                            {"revealed_attrs", "a_prime", "e", "v", "m"},
                            "m1", "m")
    /\ serde_json_in[1]["m1"] = <<"5">>
    /\ serde_json_in[1]["m"]["master_secret"] = <<"0">>
    /\ serde_out[1].ok
    /\ serde_out[1].value.m = [age |-> 7, master_secret |-> 5]

\* a public key with rms "05" and r.master_secret "0" has been
\* deserialized: its r holds 5 under master_secret
C30_PublicKeyWitness ==
    /\ serde_type = "CredentialPrimaryPublicKey"
    /\ serde_out[2] # None
    /\ {"n", "s", "r", "z"} \subseteq DOMAIN serde_json_in[2]
    /\ "rms" \in DOMAIN serde_json_in[2]
    /\ serde_json_in[2]["rms"] = <<"0", "5">>
    /\ "master_secret" \in DOMAIN serde_json_in[2]["r"]
    /\ serde_json_in[2]["r"]["master_secret"] = <<"0">>
    /\ serde_out[2].ok
    /\ serde_out[2].value.r = [age |-> 7, master_secret |-> 5]

=============================================================================
